---- MODULE Spec2Model ----
(***************************************************************************)
(* Verification model of the AI video generator:                           *)
(*   - the Cloud Worker Loop over the Firestore job queue                  *)
(*     (cloud_worker.py, firebase_utils.py),                               *)
(*   - the cold-start retry loop of the HuggingFace inference adapter      *)
(*     (hf_inference.py),                                                  *)
(*   - the Streamlit session of the interactive front end (app.py).        *)
(* Each subsystem has its own specification over the shared variables.     *)
(***************************************************************************)
EXTENDS Integers, Sequences, FiniteSets, TLC

\* ------------------------------------------------------------------ bounds
NumJobs == 2
NumWorkers == 2
MaxLoading == 32
MaxSaves == 52
MaxRemovals == 1
MaxRuns == 1
MaxRows == 2
MaxLoads == 3
NumSessions == 2
MaxOld == 3
MaxTime == 6
MaxTokens == 2
MaxWaits == 1

\* ------------------------------------------------------- program constants
max_retries == 30
DefaultWait == 10
HintClamp == 30
OTP_EXPIRY_MINUTES == 5
SESSION_TIMEOUT_HOURS == 48
max_regenerate == 2
QueryLimit == 1
HistoryCap == 50
LoadLimit == 50

VARIABLES
    \* Job Store and Worker Loops
    jobs,            \* document id -> record of the video_queue collection
    wpc,             \* worker -> position in process_jobs
    wjob,            \* worker -> job_id of the doc it iterates over (NoJob once
                     \*           the iteration is over and the value is dead)
    werr,            \* worker -> str(e) of the exception being handled
    \* HuggingFaceVideoGenerator.generate
    hf_pc, hf_loading, hf_final, hf_status, hf_requests, retry_count, hf_result,
    \* Streamlit session
    is_generating, generated_video, prompt_text, regenerate_count, last_prompt,
    history, upc, event, prompt, gen_btn, regen_btn, player, lists,
    \* History store (storage.py): the JSON file, the clock, calls that removed entries
    history_file, now, removals,
    \* Job submission and status reads (firebase_utils.py)
    _db, sub_pc, sub_result, sdk_failed, rest_calls, rest_outcome, status_result,
    \* One generation request (app.py generate_video and what follows) and the sidebar poll
    settings, stage4, video_path, runs, cloud_job_id, cloud_status,
    \* CSV metadata store (csv_storage.py): the file text, the snapshots saved, the last load
    csv_file, csv_written, csv_loaded,
    \* the body of the 503 answer being handled, the wait before the retry, the waits so far
    hf_hint, wait_time, total_wait,
    \* the job records created by the current submit_job_to_cloud call
    sub_created,
    \* ModelScopeGenerator: its fields, the completed from_pretrained calls, the last call made on it
    pipeline, model_id, current_model_id, loads, gen_call,
    \* sessions saving to the shared history file: position in save_to_history, the list load_history returned, the time of the entry
    s_pc, loaded_history, s_time,
    \* outputs/otp_store.json, the time in minutes, the last send_otp or verify_otp call; per mobile number the OTP last issued, the wrong guesses compared with it and the successful verifications of it
    otp_store, clock, otp_call, issued, wrong_compared, successes,
    \* outputs/users.json, outputs/sessions.json, the tokens handed out; the login state of one browser session; the mobile numbers verify_otp accepted in the current flow, the tokens logout destroyed, the last validate_session call
    users, sessions, tokens_made, otp_step, pending_mobile, pending_otp, is_new_user, sms_sent, session_token, current_user, login_msg, verify_log, destroyed, validate_call

workerVars == <<jobs, wpc, wjob, werr>>
hfVars == <<hf_pc, hf_loading, hf_final, hf_status, hf_requests, retry_count, hf_result, hf_hint, wait_time, total_wait>>
uiVars == <<is_generating, generated_video, prompt_text, regenerate_count, last_prompt,
            history, upc, event, prompt, gen_btn, regen_btn, player, lists>>
storeVars == <<history_file, now, removals>>
submitVars == <<_db, sub_pc, sub_result, sdk_failed, rest_calls, rest_outcome, status_result, sub_created>>
runVars == <<settings, stage4, video_path, runs, cloud_job_id, cloud_status>>
csvVars == <<csv_file, csv_written, csv_loaded>>
genVars == <<pipeline, model_id, current_model_id, loads, gen_call>>
sessVars == <<s_pc, loaded_history, s_time>>
otpVars == <<otp_store, clock, otp_call, issued, wrong_compared, successes>>
loginVars == <<users, sessions, tokens_made, otp_step, pending_mobile, pending_otp, is_new_user, sms_sent, session_token, current_user, login_msg, verify_log, destroyed, validate_call>>
vars == <<workerVars, hfVars, uiVars, storeVars, submitVars, runVars, csvVars, genVars, sessVars, otpVars, loginVars>>

None == "None"

(***************************************************************************)
(* Job Store and Cloud Worker Loop                                         *)
(***************************************************************************)
JobIds == 1..NumJobs
Workers == 1..NumWorkers
NoJob == 0

AbsentDoc == [status |-> "absent", model |-> None, video_url |-> None, error |-> None]

\* submit_job_to_cloud: db.collection("video_queue").add(job_data), status pending
SubmitJob ==
    /\ UNCHANGED <<hfVars, uiVars, storeVars, submitVars, runVars, csvVars, genVars, sessVars, otpVars, loginVars>>
    /\ \E j \in JobIds :
         /\ jobs[j].status = "absent"
         /\ \A i \in JobIds : i < j => jobs[i].status # "absent"
         /\ jobs' = [jobs EXCEPT ![j] = [AbsentDoc EXCEPT !.status = "pending"]]
    /\ UNCHANGED <<wpc, wjob, werr>>

\* (variant without the outer try of the poll loop)
CatchInnerOnly(loc) ==
    CASE loc \in {"mark", "generate", "save", "complete"} -> "handler"
      [] OTHER -> "stopped"

\* where an exception raised at a position of process_jobs lands:
\* the inner try covers the job body, the outer try the whole poll iteration,
\* nothing covers the start-up code
Catch(loc) ==
    CASE loc \in {"mark", "generate", "save", "complete"} -> "handler"
      [] loc \in {"poll", "handler"} -> "sleep10"
      [] OTHER -> "stopped"

\* get_generator, load_model, init_firebase before the loop
WorkerStart(w) ==
    /\ UNCHANGED <<hfVars, uiVars, storeVars, submitVars, runVars, csvVars, genVars, sessVars, otpVars, loginVars>>
    /\ wpc[w] = "start"
    /\ \E outcome \in {"ok", "no_db", "raise"} :
         wpc' = [wpc EXCEPT ![w] = CASE outcome = "ok" -> "poll"
                                     [] outcome = "no_db" -> "stopped"
                                     [] OTHER -> Catch("start")]
    /\ UNCHANGED <<jobs, wjob, werr>>

\* (variant of the filter that also matches jobs being processed)
PendingOrProcessingDocs == {j \in JobIds : jobs[j].status \in {"pending", "processing"}}

\* where("status", "==", "pending")
PendingDocs == {j \in JobIds : jobs[j].status = "pending"}

\* .limit(1).get(): the possible result sets of one query
QueryResults ==
    {S \in SUBSET PendingDocs :
        Cardinality(S) = IF Cardinality(PendingDocs) < QueryLimit
                           THEN Cardinality(PendingDocs) ELSE QueryLimit}

QueryPending(w) ==
    /\ UNCHANGED <<hfVars, uiVars, storeVars, submitVars, runVars, csvVars, genVars, sessVars, otpVars, loginVars>>
    /\ wpc[w] = "poll"
    /\ \/ /\ wpc' = [wpc EXCEPT ![w] = Catch("poll")]
          /\ UNCHANGED wjob
       \/ /\ {} \in QueryResults
          /\ wpc' = [wpc EXCEPT ![w] = "sleep5"]
          /\ UNCHANGED wjob
       \/ \E docs \in QueryResults : \E j \in docs :
            /\ wjob' = [wjob EXCEPT ![w] = j]
            /\ wpc' = [wpc EXCEPT ![w] = "mark"]
    /\ UNCHANGED <<jobs, werr>>

\* (variant that swallows the failed write and goes on to generate)
MarkProcessingSwallow(w) ==
    /\ wpc' = [wpc EXCEPT ![w] = "generate"]
    /\ UNCHANGED <<jobs, werr>>

\* a store write that fails raises and leaves the document as it was
MarkProcessingFail(w) ==
    /\ wpc' = [wpc EXCEPT ![w] = Catch("mark")]
    /\ werr' = [werr EXCEPT ![w] = "store"]
    /\ UNCHANGED jobs

MarkProcessing(w) ==
    /\ UNCHANGED <<hfVars, uiVars, storeVars, submitVars, runVars, csvVars, genVars, sessVars, otpVars, loginVars>>
    /\ wpc[w] = "mark"
    /\ \/ /\ jobs' = [jobs EXCEPT ![wjob[w]].status = "processing",
                                  ![wjob[w]].model = "damo"]
          /\ wpc' = [wpc EXCEPT ![w] = "generate"]
          /\ UNCHANGED werr
       \/ MarkProcessingFail(w)
    /\ UNCHANGED wjob

\* prompt styling and generator.generate(...)
Generate(w) ==
    /\ UNCHANGED <<hfVars, uiVars, storeVars, submitVars, runVars, csvVars, genVars, sessVars, otpVars, loginVars>>
    /\ wpc[w] = "generate"
    /\ \/ /\ wpc' = [wpc EXCEPT ![w] = "save"]
          /\ UNCHANGED werr
       \/ /\ wpc' = [wpc EXCEPT ![w] = Catch("generate")]
          /\ werr' = [werr EXCEPT ![w] = "generate"]
    /\ UNCHANGED <<jobs, wjob>>

\* os.makedirs and generator.save_video(frames, output_path, fps)
SaveVideo(w) ==
    /\ UNCHANGED <<hfVars, uiVars, storeVars, submitVars, runVars, csvVars, genVars, sessVars, otpVars, loginVars>>
    /\ wpc[w] = "save"
    /\ \/ /\ wpc' = [wpc EXCEPT ![w] = "complete"]
          /\ UNCHANGED werr
       \/ /\ wpc' = [wpc EXCEPT ![w] = Catch("save")]
          /\ werr' = [werr EXCEPT ![w] = "save"]
    /\ UNCHANGED <<jobs, wjob>>

\* update({"status": "completed", "video_url": abs_path, ...})
WriteCompleted(w) ==
    /\ UNCHANGED <<hfVars, uiVars, storeVars, submitVars, runVars, csvVars, genVars, sessVars, otpVars, loginVars>>
    /\ wpc[w] = "complete"
    /\ \/ /\ jobs' = [jobs EXCEPT ![wjob[w]].status = "completed",
                                  ![wjob[w]].video_url = "path"]
          /\ wpc' = [wpc EXCEPT ![w] = "sleep5"]
          /\ wjob' = [wjob EXCEPT ![w] = NoJob]
          /\ UNCHANGED werr
       \/ /\ wpc' = [wpc EXCEPT ![w] = Catch("complete")]
          /\ werr' = [werr EXCEPT ![w] = "store"]
          /\ UNCHANGED <<jobs, wjob>>

\* except Exception as e: update({"status": "error", "error": str(e)})
WriteError(w) ==
    /\ UNCHANGED <<hfVars, uiVars, storeVars, submitVars, runVars, csvVars, genVars, sessVars, otpVars, loginVars>>
    /\ wpc[w] = "handler"
    /\ \/ /\ jobs' = [jobs EXCEPT ![wjob[w]].status = "error",
                                  ![wjob[w]].error = werr[w]]
          /\ wpc' = [wpc EXCEPT ![w] = "sleep5"]
          /\ wjob' = [wjob EXCEPT ![w] = NoJob]
       \/ /\ wpc' = [wpc EXCEPT ![w] = Catch("handler")]
          /\ UNCHANGED <<jobs, wjob>>
    /\ werr' = [werr EXCEPT ![w] = None]

\* time.sleep(5) at the end of an iteration
Sleep5(w) ==
    /\ UNCHANGED <<hfVars, uiVars, storeVars, submitVars, runVars, csvVars, genVars, sessVars, otpVars, loginVars>>
    /\ wpc[w] = "sleep5"
    /\ wpc' = [wpc EXCEPT ![w] = "poll"]
    /\ UNCHANGED <<jobs, wjob, werr>>

\* except Exception (loop error): time.sleep(10)
Sleep10(w) ==
    /\ UNCHANGED <<hfVars, uiVars, storeVars, submitVars, runVars, csvVars, genVars, sessVars, otpVars, loginVars>>
    /\ wpc[w] = "sleep10"
    /\ wpc' = [wpc EXCEPT ![w] = "poll"]
    /\ wjob' = [wjob EXCEPT ![w] = NoJob]
    /\ UNCHANGED <<jobs, werr>>

WorkerNext ==
    \/ SubmitJob
    \/ \E w \in Workers : WorkerStart(w)
    \/ \E w \in Workers : QueryPending(w)
    \/ \E w \in Workers : MarkProcessing(w)
    \/ \E w \in Workers : Generate(w)
    \/ \E w \in Workers : SaveVideo(w)
    \/ \E w \in Workers : WriteCompleted(w)
    \/ \E w \in Workers : WriteError(w)
    \/ \E w \in Workers : Sleep5(w)
    \/ \E w \in Workers : Sleep10(w)

(***************************************************************************)
(* HuggingFaceVideoGenerator.generate: cold-start retry loop               *)
(* The simulated server answers "503" to its first hf_loading requests     *)
(* and hf_final to every later one ("timeout": requests.post raises).      *)
(* Writing the received bytes to the output file is taken to succeed.      *)
(***************************************************************************)
FinalResponses == {"200", "500", "timeout"}

\* the JSON body of a 503 answer: with or without "estimated_time" (seconds)
NoHint == [has_estimated_time |-> FALSE, estimated_time |-> 0]
EstimatedTimes == {5, 30, 60}
ErrorBodies == {NoHint} \cup {[has_estimated_time |-> TRUE, estimated_time |-> e] : e \in EstimatedTimes}

\* (variant that takes the hint as it comes)
WaitTimeUnclamped(error_data) ==
    IF error_data.has_estimated_time THEN error_data.estimated_time ELSE DefaultWait

\* wait_time = 10; if "estimated_time" in error_data: min(estimated_time, 30)
WaitTime(error_data) ==
    IF error_data.has_estimated_time
      THEN (IF error_data.estimated_time < HintClamp THEN error_data.estimated_time ELSE HintClamp)
      ELSE DefaultWait

\* the response to the n-th requests.post of the call
Response(n) == IF n <= hf_loading THEN "503" ELSE hf_final

\* response = requests.post(...); retry_count = 0
FirstRequest ==
    /\ UNCHANGED <<workerVars, uiVars, storeVars, submitVars, runVars, csvVars, genVars, sessVars, otpVars, loginVars>>
    /\ hf_pc = "request"
    /\ hf_requests' = 1
    /\ hf_status' = Response(1)
    /\ retry_count' = 0
    /\ IF Response(1) = "timeout"
         THEN hf_pc' = "done" /\ hf_result' = None
         ELSE hf_pc' = "loop" /\ UNCHANGED hf_result
    /\ UNCHANGED <<hf_loading, hf_final, hf_hint, wait_time, total_wait>>

\* (variants of the loop condition: a single retry, one retry too many)
RetryCondOnce == hf_status = "503" /\ retry_count < 1
RetryCondLong == hf_status = "503" /\ retry_count <= max_retries

\* while response.status_code == 503 and retry_count < max_retries
RetryCond == hf_status = "503" /\ retry_count < max_retries

\* loop body: retry_count += 1; wait_time from the body of the 503 answer;
\* time.sleep(wait_time); requests.post(...)
RetryRequest ==
    /\ UNCHANGED <<workerVars, uiVars, storeVars, submitVars, runVars, csvVars, genVars, sessVars, otpVars, loginVars>>
    /\ hf_pc = "loop"
    /\ RetryCond
    /\ retry_count' = retry_count + 1
    /\ \E error_data \in ErrorBodies :
         /\ hf_hint' = error_data
         /\ wait_time' = WaitTime(error_data)
         /\ total_wait' = total_wait + WaitTime(error_data)
    /\ hf_requests' = hf_requests + 1
    /\ hf_status' = Response(hf_requests + 1)
    /\ IF Response(hf_requests + 1) = "timeout"
         THEN hf_pc' = "done" /\ hf_result' = None
         ELSE UNCHANGED <<hf_pc, hf_result>>
    /\ UNCHANGED <<hf_loading, hf_final>>

\* if response.status_code != 200: return None; else save and return output_path
FinishGenerate ==
    /\ UNCHANGED <<workerVars, uiVars, storeVars, submitVars, runVars, csvVars, genVars, sessVars, otpVars, loginVars>>
    /\ hf_pc = "loop"
    /\ ~RetryCond
    /\ hf_result' = IF hf_status # "200" THEN None ELSE "output_path"
    /\ hf_pc' = "done"
    /\ UNCHANGED <<hf_loading, hf_final, hf_status, hf_requests, retry_count,
                   hf_hint, wait_time, total_wait>>

HFNext ==
    \/ FirstRequest
    \/ RetryRequest
    \/ FinishGenerate

(***************************************************************************)
(* Streamlit session (app.py).  Every user interaction reruns the script;  *)
(* upc is the position of the running script, "idle" when it has ended     *)
(* and the page waits for the user.  gen_btn, regen_btn, player and lists  *)
(* are the controls as the last script run rendered them.  Output files    *)
(* are taken to stay on disk (os.path.exists holds for them).              *)
(***************************************************************************)
Prompts == {"P1", "P2"}
Videos == {"old", "new"}
NoEvent == [kind |-> "none", arg |-> None]
NoPrompt == [text |-> "", translated |-> FALSE, enhanced |-> FALSE]

\* ---- user interactions: each one starts a script run
StartRun(e) ==
    /\ event' = e
    /\ upc' = "prompt_section"

\* typing in the text area or pressing an example button (prompt_text = ...)
EditPrompt ==
    /\ UNCHANGED <<workerVars, hfVars, storeVars, submitVars, runVars, csvVars, genVars, sessVars, otpVars, loginVars>>
    /\ upc = "idle"
    /\ \E p \in Prompts \cup {""} :
         /\ p # prompt_text
         /\ prompt_text' = p
    /\ StartRun(NoEvent)
    /\ UNCHANGED <<is_generating, generated_video, regenerate_count, last_prompt,
                   history, prompt, gen_btn, regen_btn, player, lists>>

\* any other widget (sidebar) interaction
OtherInteraction ==
    /\ UNCHANGED <<workerVars, hfVars, storeVars, submitVars, runVars, csvVars, genVars, sessVars, otpVars, loginVars>>
    /\ upc = "idle"
    /\ StartRun(NoEvent)
    /\ UNCHANGED <<is_generating, generated_video, prompt_text, regenerate_count,
                   last_prompt, history, prompt, gen_btn, regen_btn, player, lists>>

ClickGenerate ==
    /\ UNCHANGED <<workerVars, hfVars, storeVars, submitVars, runVars, csvVars, genVars, sessVars, otpVars, loginVars>>
    /\ upc = "idle"
    /\ gen_btn
    /\ StartRun([kind |-> "generate", arg |-> None])
    /\ UNCHANGED <<is_generating, generated_video, prompt_text, regenerate_count,
                   last_prompt, history, prompt, gen_btn, regen_btn, player, lists>>

ClickRegenerate ==
    /\ UNCHANGED <<workerVars, hfVars, storeVars, submitVars, runVars, csvVars, genVars, sessVars, otpVars, loginVars>>
    /\ upc = "idle"
    /\ regen_btn
    /\ StartRun([kind |-> "regenerate", arg |-> None])
    /\ UNCHANGED <<is_generating, generated_video, prompt_text, regenerate_count,
                   last_prompt, history, prompt, gen_btn, regen_btn, player, lists>>

ClickNewVideo ==
    /\ UNCHANGED <<workerVars, hfVars, storeVars, submitVars, runVars, csvVars, genVars, sessVars, otpVars, loginVars>>
    /\ upc = "idle"
    /\ player
    /\ StartRun([kind |-> "new_video", arg |-> None])
    /\ UNCHANGED <<is_generating, generated_video, prompt_text, regenerate_count,
                   last_prompt, history, prompt, gen_btn, regen_btn, player, lists>>

\* Play button of a history icon or of a cloud_outputs video
ClickPlay ==
    /\ UNCHANGED <<workerVars, hfVars, storeVars, submitVars, runVars, csvVars, genVars, sessVars, otpVars, loginVars>>
    /\ upc = "idle"
    /\ lists
    /\ \E v \in history : StartRun([kind |-> "play", arg |-> v])
    /\ UNCHANGED <<is_generating, generated_video, prompt_text, regenerate_count,
                   last_prompt, history, prompt, gen_btn, regen_btn, player, lists>>

\* ---- the script
\* an uncaught exception ends the run: nothing below the raise is rendered
ScriptDies ==
    /\ upc' = "idle"
    /\ event' = NoEvent
    /\ regen_btn' = FALSE
    /\ player' = FALSE
    /\ lists' = FALSE

\* st.rerun(): the run stops and the script starts again with no widget event
Rerun ==
    /\ upc' = "prompt_section"
    /\ event' = NoEvent

\* (variants of the comparison, off by one either way)
RegenerateAvailableMore(count) == max_regenerate - count >= 0
RegenerateAvailableLess(count) == max_regenerate - count > 1

\* render_video_player: remaining = max_regen - regen_count; if remaining > 0
RegenerateAvailable(count) == max_regenerate - count > 0

\* render_prompt_section up to the start of the pipeline
RenderPromptSection ==
    /\ UNCHANGED <<workerVars, hfVars, storeVars, submitVars, runVars, csvVars, genVars, sessVars, otpVars, loginVars>>
    /\ upc = "prompt_section"
    /\ gen_btn' = (prompt_text # "" /\ ~is_generating)
    /\ LET is_regenerating == is_generating /\ generated_video = None /\ last_prompt # None
           p == IF is_regenerating THEN last_prompt ELSE prompt_text
           generate_clicked == is_regenerating \/ event.kind = "generate"
       IN  IF generate_clicked /\ p # ""
             THEN /\ is_generating' = TRUE
                  /\ last_prompt' = p
                  /\ prompt' = [text |-> p, translated |-> FALSE, enhanced |-> FALSE]
                  /\ upc' = "translate"
             ELSE /\ upc' = "player"
                  /\ UNCHANGED <<is_generating, last_prompt, prompt>>
    /\ UNCHANGED <<generated_video, prompt_text, regenerate_count, history, event,
                   regen_btn, player, lists>>

\* Step 1: translate_to_english inside try/except; the handler calls
\* capture_error for a model error, which is not itself guarded
Translate ==
    /\ UNCHANGED <<workerVars, hfVars, storeVars, submitVars, runVars, csvVars, genVars, sessVars, otpVars, loginVars>>
    /\ upc = "translate"
    /\ \/ /\ upc' = "analyze"
          /\ \E was_translated \in BOOLEAN :
               prompt' = [prompt EXCEPT !.translated = was_translated]
          /\ UNCHANGED <<event, regen_btn, player, lists>>
       \/ /\ ScriptDies
          /\ UNCHANGED prompt
    /\ UNCHANGED <<is_generating, generated_video, prompt_text, regenerate_count,
                   last_prompt, history, gen_btn>>

\* Step 2: LLAMA analysis when enable_refinement; its except handler runs the
\* legacy refiner, which is not itself guarded
Analyze ==
    /\ UNCHANGED <<workerVars, hfVars, storeVars, submitVars, runVars, csvVars, genVars, sessVars, otpVars, loginVars>>
    /\ upc = "analyze"
    /\ \/ /\ upc' = "search"
          /\ \E e \in BOOLEAN : prompt' = [prompt EXCEPT !.enhanced = e]
          /\ UNCHANGED <<event, regen_btn, player, lists>>
       \/ /\ ScriptDies
          /\ UNCHANGED prompt
    /\ UNCHANGED <<is_generating, generated_video, prompt_text, regenerate_count,
                   last_prompt, history, gen_btn>>

\* Step 3: save_search inside try/except
SearchHistory ==
    /\ UNCHANGED <<workerVars, hfVars, storeVars, submitVars, runVars, csvVars, genVars, sessVars, otpVars, loginVars>>
    /\ upc = "search"
    /\ upc' = "generate"
    /\ UNCHANGED <<is_generating, generated_video, prompt_text, regenerate_count,
                   last_prompt, history, event, prompt, gen_btn, regen_btn, player, lists>>

\* Step 4 and after: generate_video returns a path or None (it catches its own
\* exceptions); load_history is not guarded; the CSV save is
GenerateVideo ==
    /\ UNCHANGED <<workerVars, hfVars, storeVars, submitVars, runVars, csvVars, genVars, sessVars, otpVars, loginVars>>
    /\ upc = "generate"
    /\ \/ /\ generated_video' = "new"
          /\ history' = history \cup {"new"}
          /\ is_generating' = FALSE
          /\ Rerun
          /\ UNCHANGED <<regen_btn, player, lists>>
       \/ /\ generated_video' = "new"
          /\ ScriptDies
          /\ UNCHANGED <<history, is_generating>>
       \/ /\ is_generating' = FALSE
          /\ upc' = "player"
          /\ UNCHANGED <<generated_video, history, event, regen_btn, player, lists>>
    /\ UNCHANGED <<prompt_text, regenerate_count, last_prompt, prompt, gen_btn>>

\* render_video_player
RenderVideoPlayer ==
    /\ UNCHANGED <<workerVars, hfVars, storeVars, submitVars, runVars, csvVars, genVars, sessVars, otpVars, loginVars>>
    /\ upc = "player"
    /\ IF generated_video = None
         THEN /\ player' = FALSE
              /\ regen_btn' = FALSE
              /\ upc' = "lists"
              /\ UNCHANGED <<is_generating, generated_video, prompt_text,
                             regenerate_count, last_prompt, event>>
         ELSE IF RegenerateAvailable(regenerate_count) /\ event.kind = "regenerate"
         THEN /\ regenerate_count' = regenerate_count + 1
              /\ is_generating' = TRUE
              /\ generated_video' = None
              /\ Rerun
              /\ UNCHANGED <<prompt_text, last_prompt, player, regen_btn>>
         ELSE IF event.kind = "new_video"
         THEN /\ regenerate_count' = 0
              /\ generated_video' = None
              /\ prompt_text' = ""
              /\ last_prompt' = None
              /\ Rerun
              /\ UNCHANGED <<is_generating, player, regen_btn>>
         ELSE /\ player' = TRUE
              /\ regen_btn' = RegenerateAvailable(regenerate_count)
              /\ upc' = "lists"
              /\ UNCHANGED <<is_generating, generated_video, prompt_text,
                             regenerate_count, last_prompt, event>>
    /\ UNCHANGED <<history, prompt, gen_btn, lists>>

\* render_cloud_videos and render_history_icons, then the end of main()
RenderLists ==
    /\ UNCHANGED <<workerVars, hfVars, storeVars, submitVars, runVars, csvVars, genVars, sessVars, otpVars, loginVars>>
    /\ upc = "lists"
    /\ IF event.kind = "play"
         THEN /\ generated_video' = event.arg
              /\ Rerun
              /\ UNCHANGED lists
         ELSE /\ lists' = TRUE
              /\ upc' = "idle"
              /\ event' = NoEvent
              /\ UNCHANGED generated_video
    /\ UNCHANGED <<is_generating, prompt_text, regenerate_count, last_prompt,
                   history, prompt, gen_btn, regen_btn, player>>

UINext ==
    \/ EditPrompt
    \/ OtherInteraction
    \/ ClickGenerate
    \/ ClickRegenerate
    \/ ClickNewVideo
    \/ ClickPlay
    \/ RenderPromptSection
    \/ Translate
    \/ Analyze
    \/ SearchHistory
    \/ GenerateVideo
    \/ RenderVideoPlayer
    \/ RenderLists

(***************************************************************************)
(* History store (storage.py).  history_file is the JSON array of          *)
(* outputs/history.json, newest entry first; now is datetime.now(), taken  *)
(* to advance between two saves.                                           *)
(***************************************************************************)
Min(a, b) == IF a < b THEN a ELSE b

StorePrompt == [text |-> "P1", translated |-> FALSE, enhanced |-> FALSE]

\* (variant without the truncation to the last 50 entries)
save_to_history_uncapped(h, p, m, v, t) ==
    <<[id |-> Len(h) + 1, prompt |-> p, model |-> m, video_path |-> v, created_at |-> t]>> \o h

\* save_to_history: id = len(history) + 1; history.insert(0, entry);
\* history = history[:50]
save_to_history(h, p, m, v, t) ==
    LET entry == [id |-> Len(h) + 1, prompt |-> p, model |-> m, video_path |-> v,
                  created_at |-> t]
        inserted == <<entry>> \o h
    IN  SubSeq(inserted, 1, Min(Len(inserted), HistoryCap))

\* delete_from_history: pops the first entry whose id is entry_id
delete_from_history(h, entry_id) ==
    LET hits == {i \in 1..Len(h) : h[i].id = entry_id}
    IN  IF hits = {} THEN h
        ELSE LET i == CHOOSE k \in hits : \A l \in hits : k <= l
             IN  SubSeq(h, 1, i - 1) \o SubSeq(h, i + 1, Len(h))

\* the ids tried for deletion: those of the newest, the middle and the
\* oldest entry
DeleteTargets(h) ==
    IF Len(h) = 0 THEN {}
    ELSE {h[1].id, h[(Len(h) + 1) \div 2].id, h[Len(h)].id}

SaveToHistory ==
    /\ UNCHANGED <<workerVars, hfVars, uiVars, submitVars, runVars, csvVars, genVars, sessVars, otpVars, loginVars>>
    /\ now < MaxSaves
    /\ history_file' = save_to_history(history_file, StorePrompt, "modelscope", "new", now)
    /\ now' = now + 1
    /\ UNCHANGED removals

DeleteFromHistory ==
    /\ UNCHANGED <<workerVars, hfVars, uiVars, submitVars, runVars, csvVars, genVars, sessVars, otpVars, loginVars>>
    /\ removals < MaxRemovals
    /\ \E entry_id \in DeleteTargets(history_file) :
         history_file' = delete_from_history(history_file, entry_id)
    /\ removals' = removals + 1
    /\ UNCHANGED now

\* clear_history: json.dump([], f)
ClearHistory ==
    /\ UNCHANGED <<workerVars, hfVars, uiVars, submitVars, runVars, csvVars, genVars, sessVars, otpVars, loginVars>>
    /\ removals < MaxRemovals
    /\ history_file # <<>>
    /\ history_file' = <<>>
    /\ removals' = removals + 1
    /\ UNCHANGED now

StoreNext ==
    \/ SaveToHistory
    \/ DeleteFromHistory
    \/ ClearHistory

(***************************************************************************)
(* Job submission and status reads (firebase_utils.py).  jobs holds the    *)
(* documents as the SDK returns them; the REST interface carries every     *)
(* value wrapped by its type ({"stringValue": ...}).                       *)
(***************************************************************************)
NoResult == [success |-> FALSE, job_id |-> NoJob, message |-> "none"]
NoRead == [path |-> "none", job_id |-> NoJob]

\* a dict that is missing or empty (falsy in Python)
NoValue == <<>>

\* to_fs, for the strings the status field takes
to_fs(v) == [stringValue |-> v]

\* (variant that falls through to str(v) without unwrapping the value)
from_fs_str(v) ==
    IF DOMAIN v = {} THEN None ELSE "{'stringValue': ...}"

\* from_fs: None for a missing field, else the value under its type key
from_fs(v) ==
    IF DOMAIN v = {} THEN None
    ELSE IF "stringValue" \in DOMAIN v THEN v.stringValue
    ELSE "{...}"

\* the payload of the REST insertion
RestPayload == [fields |-> [status |-> to_fs("pending")]]

\* the document the store creates from a REST payload
RestCreate(payload) ==
    [AbsentDoc EXCEPT !.status = payload.fields.status.stringValue]

\* the fields of a document as the REST interface returns them: only the
\* fields the document has
RestFields(doc) ==
    [f \in {g \in {"status", "video_url", "error"} : doc[g] # None}
        |-> [stringValue |-> doc[f]]]

\* fields.get(f)
FieldGet(fields, f) == IF f \in DOMAIN fields THEN fields[f] ELSE NoValue

\* resp.json()["name"] of a created document
DocName(j) == <<"projects", "p", "databases", "(default)", "documents", "video_queue", j>>

\* name.split("/")[-1]
doc_id(name) == name[Len(name)]

\* the id the store assigns to a new document
FreshId == CHOOSE j \in JobIds : jobs[j].status = "absent" /\ \A i \in JobIds : i < j => jobs[i].status # "absent"

\* init_firebase: the singleton if set, else a client or None
InitFirebaseResults == IF _db # None THEN {_db} ELSE {None, "client"}

\* submit_job_to_cloud up to the insert call
SubmitJobToCloud ==
    /\ UNCHANGED <<hfVars, uiVars, storeVars, runVars, csvVars, genVars, sessVars, otpVars, loginVars>>
    /\ sub_pc \in {"idle", "done"}
    /\ \E j \in JobIds : jobs[j].status = "absent"
    /\ \E db \in InitFirebaseResults :
         /\ _db' = db
         /\ IF db = None
              THEN /\ sub_pc' = "done"
                   /\ sdk_failed' = "init"
                   /\ sub_result' = [success |-> FALSE, job_id |-> NoJob,
                                     message |-> "Firebase not configured"]
              ELSE /\ sub_pc' = "add"
                   /\ sdk_failed' = "no"
                   /\ UNCHANGED sub_result
    /\ rest_calls' = 0
    /\ rest_outcome' = "none"
    /\ sub_created' = {}
    /\ UNCHANGED <<workerVars, status_result>>

\* db.collection("video_queue").add(job_data) returns
SdkAdd ==
    /\ UNCHANGED <<hfVars, uiVars, storeVars, runVars, csvVars, genVars, sessVars, otpVars, loginVars>>
    /\ sub_pc = "add"
    /\ \E j \in JobIds : jobs[j].status = "absent"
    /\ jobs' = [jobs EXCEPT ![FreshId] = [AbsentDoc EXCEPT !.status = "pending"]]
    /\ sub_result' = [success |-> TRUE, job_id |-> FreshId, message |-> "Job queued successfully!"]
    /\ sub_created' = sub_created \cup {FreshId}
    /\ sub_pc' = "done"
    /\ UNCHANGED <<wpc, wjob, werr, _db, sdk_failed, rest_calls, rest_outcome, status_result>>

\* (variant that reports the failure without the REST fallback)
SdkAddRaisesNoFallback ==
    /\ UNCHANGED <<hfVars, uiVars, storeVars, runVars, csvVars, genVars, sessVars, otpVars, loginVars>>
    /\ sub_pc = "add"
    /\ sdk_failed' = "add"
    /\ sub_pc' = "done"
    /\ sub_result' = [success |-> FALSE, job_id |-> NoJob, message |-> "SDK Failed"]
    /\ UNCHANGED <<workerVars, _db, rest_calls, rest_outcome, status_result, sub_created>>

\* the insert call raises, with the document written or not: the except
\* branch goes to submit_job_via_rest
SdkAddRaises ==
    /\ UNCHANGED <<hfVars, uiVars, storeVars, runVars, csvVars, genVars, sessVars, otpVars, loginVars>>
    /\ sub_pc = "add"
    /\ sdk_failed' = "add"
    /\ sub_pc' = "rest"
    /\ \/ UNCHANGED <<jobs, sub_created>>
       \/ /\ \E j \in JobIds : jobs[j].status = "absent"
          /\ jobs' = [jobs EXCEPT ![FreshId] = [AbsentDoc EXCEPT !.status = "pending"]]
          /\ sub_created' = sub_created \cup {FreshId}
    /\ UNCHANGED <<wpc, wjob, werr, _db, sub_result, rest_calls, rest_outcome, status_result>>

\* submit_job_via_rest: credentials, payload, POST, result
SubmitJobViaRest ==
    /\ UNCHANGED <<hfVars, uiVars, storeVars, runVars, csvVars, genVars, sessVars, otpVars, loginVars>>
    /\ sub_pc = "rest"
    /\ rest_calls' = rest_calls + 1
    /\ sub_pc' = "done"
    /\ \/ /\ rest_outcome' = "exception"
          /\ sub_result' = [success |-> FALSE, job_id |-> NoJob, message |-> "REST Connection Failed"]
          /\ UNCHANGED <<jobs, sub_created>>
       \/ /\ rest_outcome' = "error"
          /\ sub_result' = [success |-> FALSE, job_id |-> NoJob, message |-> "REST Error"]
          /\ UNCHANGED <<jobs, sub_created>>
       \/ /\ \E j \in JobIds : jobs[j].status = "absent"
          /\ rest_outcome' = "200"
          /\ jobs' = [jobs EXCEPT ![FreshId] = RestCreate(RestPayload)]
          /\ sub_created' = sub_created \cup {FreshId}
          /\ sub_result' = [success |-> TRUE, job_id |-> doc_id(DocName(FreshId)),
                            message |-> "Job queued via HTTP"]
    /\ UNCHANGED <<wpc, wjob, werr, _db, sdk_failed, status_result>>

\* get_job_status(job_id) with client db: the SDK read if the client works and
\* the document exists, else get_job_status_via_rest, which returns the
\* unwrapped fields on a 200 answer and None otherwise
StatusReads(job_id, db) ==
    LET doc == jobs[job_id]
        fields == RestFields(doc)
    IN  {[path |-> "failed", job_id |-> job_id]}
        \cup (IF db # None /\ doc.status # "absent"
                THEN {[path |-> "sdk", job_id |-> job_id, record |-> doc]}
                ELSE {})
        \cup (IF doc.status # "absent"
                THEN {[path |-> "rest", job_id |-> job_id,
                       record |-> [status |-> from_fs(FieldGet(fields, "status")),
                                   video_url |-> from_fs(FieldGet(fields, "video_url")),
                                   error |-> from_fs(FieldGet(fields, "error"))]]}
                ELSE {})

GetJobStatus ==
    /\ UNCHANGED <<hfVars, uiVars, storeVars, runVars, csvVars, genVars, sessVars, otpVars, loginVars>>
    /\ sub_pc \in {"idle", "done"}
    /\ \E job_id \in JobIds :
         \E db \in InitFirebaseResults :
           /\ _db' = db
           /\ \E r \in StatusReads(job_id, db) : status_result' = r
    /\ UNCHANGED <<workerVars, sub_pc, sub_result, sdk_failed, rest_calls, rest_outcome, sub_created>>

SubmitNext ==
    \/ SubmitJobToCloud
    \/ SdkAdd
    \/ SdkAddRaises
    \/ SubmitJobViaRest
    \/ GetJobStatus

(***************************************************************************)
(* One generation request in detail (app.py): generate_video with its      *)
(* stages, the persistence that follows it, and the Check Now button of    *)
(* the sidebar.  stage4 tells whether the generator itself produced its    *)
(* output in the last generate_video call; video_path is what the call     *)
(* returned; runs counts the calls.                                        *)
(***************************************************************************)
Modes == {"Local (Offline)", "Cloud (Faster)"}

\* st.session_state.get("cloud_status", {})
NoStatus == [status |-> None, video_url |-> None, error |-> None]

\* the documents a worker leaves behind for a job
WorkerDocs ==
    {[AbsentDoc EXCEPT !.status = "pending"],
     [AbsentDoc EXCEPT !.status = "completed", !.video_url = "url"],
     [AbsentDoc EXCEPT !.status = "error", !.error = "generate"]}

\* generate_video returns None: the generator gave nothing or raised
\* (stage4 failed), or a later statement raised into the outer except
ReturnsNone(s4) ==
    /\ stage4' = s4
    /\ video_path' = None
    /\ UNCHANGED <<history_file, now>>

\* generate_video returns the path after save_to_history wrote the entry
ReturnsPath(model) ==
    /\ stage4' = "ok"
    /\ video_path' = "new"
    /\ history_file' = save_to_history(history_file, prompt, model, "new", now)
    /\ now' = now + 1

\* generate_video(prompt, settings, status_placeholder)
GenerateVideoCall ==
    /\ UNCHANGED <<workerVars, hfVars, submitVars, csvVars, genVars, sessVars, otpVars, loginVars>>
    /\ upc = "generate"
    /\ runs < MaxRuns
    /\ runs' = runs + 1
    /\ upc' = "persist"
    /\ IF settings.mode = "Cloud (Faster)"
         THEN \* generate_video_hf gives no file, or raises
              \/ ReturnsNone("failed")
              \* the file is there, save_to_history raises: except Exception
              \/ ReturnsNone("ok")
              \/ ReturnsPath("huggingface_cloud")
         ELSE \* generator.generate, the resize or save_video_from_frames raises
              \/ ReturnsNone("failed")
              \* frames are there; the subtitle imports or the duration raise
              \/ /\ settings.enable_subtitles
                 /\ ReturnsNone("ok")
              \* the video file is written, save_to_history raises
              \/ ReturnsNone("ok")
              \* subtitles burnt in, or skipped after a caught subtitle error
              \/ ReturnsPath("modelscope")
    /\ UNCHANGED removals
    /\ UNCHANGED <<settings, cloud_job_id, cloud_status>>
    /\ UNCHANGED <<is_generating, generated_video, prompt_text, regenerate_count,
                   last_prompt, history, event, prompt, gen_btn, regen_btn, player, lists>>

\* the video paths of the entries load_history returns
HistoryVideos == {history_file[i].video_path : i \in 1..Len(history_file)}

\* if video_path: session state, load_history (not guarded), the CSV save
\* (guarded), st.rerun(); else is_generating = False and the page goes on
PersistResult ==
    /\ UNCHANGED <<workerVars, hfVars, storeVars, submitVars, runVars, csvVars, genVars, sessVars, otpVars, loginVars>>
    /\ upc = "persist"
    /\ IF video_path # None
         THEN /\ generated_video' = video_path
              /\ \/ /\ history' = HistoryVideos
                    /\ is_generating' = FALSE
                    /\ Rerun
                    /\ UNCHANGED <<regen_btn, player, lists>>
                 \/ /\ ScriptDies
                    /\ UNCHANGED <<history, is_generating>>
         ELSE /\ is_generating' = FALSE
              /\ upc' = "player"
              /\ UNCHANGED <<generated_video, history, event, regen_btn, player, lists>>
    /\ UNCHANGED <<prompt_text, regenerate_count, last_prompt, prompt, gen_btn>>

\* the Check Now button: get_job_status(cloud_job_id); cloud_status = data if
\* data; the status and, for a completed job, the video are shown
CheckNow ==
    /\ UNCHANGED <<workerVars, hfVars, storeVars, csvVars, genVars, sessVars, otpVars, loginVars>>
    /\ upc = "idle"
    /\ cloud_job_id # NoJob
    /\ \E db \in InitFirebaseResults :
         /\ _db' = db
         /\ \E r \in StatusReads(cloud_job_id, db) :
              cloud_status' = IF r.path = "failed" THEN cloud_status
                              ELSE [status |-> r.record.status,
                                    video_url |-> r.record.video_url,
                                    error |-> r.record.error]
    /\ StartRun(NoEvent)
    /\ UNCHANGED <<sub_pc, sub_result, sdk_failed, rest_calls, rest_outcome, status_result, sub_created>>
    /\ UNCHANGED <<settings, stage4, video_path, runs, cloud_job_id>>
    /\ UNCHANGED <<is_generating, generated_video, prompt_text, regenerate_count,
                   last_prompt, history, prompt, gen_btn, regen_btn, player, lists>>

RunNext ==
    \/ EditPrompt
    \/ ClickGenerate
    \/ CheckNow
    \/ RenderPromptSection
    \/ Translate
    \/ Analyze
    \/ SearchHistory
    \/ GenerateVideoCall
    \/ PersistResult
    \/ RenderVideoPlayer
    \/ RenderLists

(***************************************************************************)
(* CSV metadata store (csv_storage.py).  A text is a sequence of symbols:  *)
(* the characters that matter to JSON and CSV one by one, a run of other   *)
(* characters as one symbol.  A Python value is its type and its text.     *)
(***************************************************************************)
Quote == "\""
Backslash == "\\"
LF == "\n"
CR == "\r"
Comma == ","

PyStr(t) == [tag |-> "str", text |-> t]
PyInt(t) == [tag |-> "int", text |-> t]
PyFloat(t) == [tag |-> "float", text |-> t]
PyBool(b) == [tag |-> "bool", text |-> <<b>>]
PyNone == [tag |-> "NoneType", text |-> <<>>]

\* ---- json.dumps of a flat dict (a sequence of <<key, value>> items)
\* the escape of one character
ESCAPE_DCT(c) ==
    CASE c = Quote -> <<Backslash, Quote>>
      [] c = Backslash -> <<Backslash, Backslash>>
      [] c = LF -> <<Backslash, "n">>
      [] c = CR -> <<Backslash, "r">>
      [] OTHER -> <<c>>

\* the escapes of t[lo..hi], one after the other
RECURSIVE EncodeRange(_, _, _)
EncodeRange(t, lo, hi) ==
    IF lo > hi THEN <<>>
    ELSE IF lo = hi THEN ESCAPE_DCT(t[lo])
    ELSE EncodeRange(t, lo, (lo + hi) \div 2) \o EncodeRange(t, (lo + hi) \div 2 + 1, hi)

py_encode_basestring(t) == EncodeRange(t, 1, Len(t))

JsonString(t) == <<Quote>> \o py_encode_basestring(t) \o <<Quote>>

dumps_value(v) ==
    CASE v.tag = "str" -> JsonString(v.text)
      [] v.tag = "bool" -> (IF v.text = <<"True">> THEN <<"true">> ELSE <<"false">>)
      [] v.tag = "NoneType" -> <<"null">>
      [] OTHER -> v.text

RECURSIVE dumps_items(_)
dumps_items(items) ==
    IF items = <<>> THEN <<>>
    ELSE JsonString(items[1][1]) \o <<":", " ">> \o dumps_value(items[1][2])
         \o (IF Len(items) > 1 THEN <<Comma, " ">> ELSE <<>>)
         \o dumps_items(Tail(items))

json_dumps(d) == <<"{">> \o dumps_items(d) \o <<"}">>

\* ---- json.loads of an object; ok = FALSE stands for JSONDecodeError
JsonFail == [ok |-> FALSE, val |-> <<>>, next |-> 0]
NumberSymbols == {"0", "5", "7", "8", "24", ".", "-"}

RECURSIVE SkipWhitespace(_, _)
SkipWhitespace(t, i) ==
    IF i <= Len(t) /\ t[i] = " " THEN SkipWhitespace(t, i + 1) ELSE i

\* the characters of a string up to its closing quote
RECURSIVE scanstring(_, _, _)
scanstring(t, i, acc) ==
    IF i > Len(t) THEN JsonFail
    ELSE IF t[i] = Quote THEN [ok |-> TRUE, val |-> acc, next |-> i + 1]
    ELSE IF t[i] \in {LF, CR} THEN JsonFail
    ELSE IF t[i] = Backslash
      THEN IF i + 1 > Len(t) THEN JsonFail
           ELSE CASE t[i + 1] = Quote -> scanstring(t, i + 2, Append(acc, Quote))
                  [] t[i + 1] = Backslash -> scanstring(t, i + 2, Append(acc, Backslash))
                  [] t[i + 1] = "n" -> scanstring(t, i + 2, Append(acc, LF))
                  [] t[i + 1] = "r" -> scanstring(t, i + 2, Append(acc, CR))
                  [] OTHER -> JsonFail
    ELSE scanstring(t, i + 1, Append(acc, t[i]))

RECURSIVE scannumber(_, _, _)
scannumber(t, i, acc) ==
    IF i <= Len(t) /\ t[i] \in NumberSymbols
      THEN scannumber(t, i + 1, Append(acc, t[i]))
      ELSE [ok |-> TRUE,
            val |-> IF \E k \in 1..Len(acc) : acc[k] = "." THEN PyFloat(acc) ELSE PyInt(acc),
            next |-> i]

scan_once(t, i) ==
    IF i > Len(t) THEN JsonFail
    ELSE CASE t[i] = Quote ->
                LET s == scanstring(t, i + 1, <<>>)
                IN  IF s.ok THEN [s EXCEPT !.val = PyStr(s.val)] ELSE JsonFail
           [] t[i] = "true" -> [ok |-> TRUE, val |-> PyBool("True"), next |-> i + 1]
           [] t[i] = "false" -> [ok |-> TRUE, val |-> PyBool("False"), next |-> i + 1]
           [] t[i] = "null" -> [ok |-> TRUE, val |-> PyNone, next |-> i + 1]
           [] t[i] \in NumberSymbols -> scannumber(t, i, <<>>)
           [] OTHER -> JsonFail

\* the items of an object after "{" or after a ","
RECURSIVE JSONObject(_, _, _)
JSONObject(t, i, items) ==
    LET k == SkipWhitespace(t, i)
    IN  IF k > Len(t) \/ t[k] # Quote THEN JsonFail
        ELSE LET key == scanstring(t, k + 1, <<>>)
             IN  IF ~key.ok THEN JsonFail
                 ELSE LET c == SkipWhitespace(t, key.next)
                      IN  IF c > Len(t) \/ t[c] # ":" THEN JsonFail
                          ELSE LET v == scan_once(t, SkipWhitespace(t, c + 1))
                               IN  IF ~v.ok THEN JsonFail
                                   ELSE LET e == SkipWhitespace(t, v.next)
                                            got == Append(items, <<key.val, v.val>>)
                                        IN  IF e > Len(t) THEN JsonFail
                                            ELSE IF t[e] = "}"
                                              THEN [ok |-> TRUE, val |-> got, next |-> e + 1]
                                            ELSE IF t[e] = Comma
                                              THEN JSONObject(t, e + 1, got)
                                            ELSE JsonFail

\* json.loads(text) for a settings object; trailing text is an error
json_loads(t) ==
    LET s == SkipWhitespace(t, 1)
    IN  IF s > Len(t) \/ t[s] # "{" THEN JsonFail
        ELSE LET k == SkipWhitespace(t, s + 1)
                 obj == IF k <= Len(t) /\ t[k] = "}"
                          THEN [ok |-> TRUE, val |-> <<>>, next |-> k + 1]
                          ELSE JSONObject(t, s + 1, <<>>)
             IN  IF obj.ok /\ SkipWhitespace(t, obj.next) > Len(t) THEN obj ELSE JsonFail

\* ---- csv.writer, excel dialect: a field with a comma, a quote or a line
\* break is quoted, and its quotes are doubled
RECURSIVE DoubleRange(_, _, _)
DoubleRange(t, lo, hi) ==
    IF lo > hi THEN <<>>
    ELSE IF lo = hi THEN (IF t[lo] = Quote THEN <<Quote, Quote>> ELSE <<t[lo]>>)
    ELSE DoubleRange(t, lo, (lo + hi) \div 2) \o DoubleRange(t, (lo + hi) \div 2 + 1, hi)

DoubleQuotes(t) == DoubleRange(t, 1, Len(t))

NeedsQuotes(t) == \E i \in 1..Len(t) : t[i] \in {Comma, Quote, CR, LF}

\* (variant that quotes a field without doubling the quotes inside it)
QuoteFieldPlain(t) ==
    IF NeedsQuotes(t) THEN <<Quote>> \o t \o <<Quote>> ELSE t

QuoteField(t) ==
    IF NeedsQuotes(t) THEN <<Quote>> \o DoubleQuotes(t) \o <<Quote>> ELSE t

RECURSIVE JoinFields(_)
JoinFields(fields) ==
    IF fields = <<>> THEN <<>>
    ELSE QuoteField(fields[1]) \o (IF Len(fields) > 1 THEN <<Comma>> ELSE <<>>)
         \o JoinFields(Tail(fields))

\* writer.writerow: the fields and the line terminator
writerow(fields) == JoinFields(fields) \o <<CR, LF>>

\* ---- csv.reader on a file opened with newline="": the rows of a text.
\* The reader is a state machine fed one character at a time.
ReaderStart == [state |-> "START_RECORD", field |-> <<>>, row |-> <<>>, rows |-> <<>>]

EndRecord(st, c) ==
    [state |-> IF c = CR THEN "AFTER_CR" ELSE "START_RECORD",
     field |-> <<>>, row |-> <<>>,
     rows |-> Append(st.rows, Append(st.row, st.field))]

EndField(st) ==
    [st EXCEPT !.state = "START_FIELD", !.field = <<>>, !.row = Append(st.row, st.field)]

AddChar(st, c, s) == [st EXCEPT !.state = s, !.field = Append(st.field, c)]

StartField(st, c) ==
    IF c \in {CR, LF} THEN EndRecord(st, c)
    ELSE IF c = Quote THEN [st EXCEPT !.state = "IN_QUOTED_FIELD"]
    ELSE IF c = Comma THEN EndField(st)
    ELSE AddChar(st, c, "IN_FIELD")

\* an empty line gives an empty row
StartRecord(st, c) ==
    IF c \in {CR, LF}
      THEN [st EXCEPT !.state = IF c = CR THEN "AFTER_CR" ELSE "START_RECORD",
                      !.rows = Append(st.rows, <<>>)]
      ELSE StartField(st, c)

parse_process_char(st, c) ==
    CASE st.state = "AFTER_CR" ->
           IF c = LF THEN [st EXCEPT !.state = "START_RECORD"] ELSE StartRecord(st, c)
      [] st.state = "START_RECORD" -> StartRecord(st, c)
      [] st.state = "START_FIELD" -> StartField(st, c)
      [] st.state = "IN_FIELD" ->
           IF c \in {CR, LF} THEN EndRecord(st, c)
           ELSE IF c = Comma THEN EndField(st)
           ELSE AddChar(st, c, "IN_FIELD")
      [] st.state = "IN_QUOTED_FIELD" ->
           IF c = Quote THEN [st EXCEPT !.state = "QUOTE_IN_QUOTED_FIELD"]
           ELSE AddChar(st, c, "IN_QUOTED_FIELD")
      [] st.state = "QUOTE_IN_QUOTED_FIELD" ->
           IF c = Quote THEN AddChar(st, c, "IN_QUOTED_FIELD")
           ELSE IF c = Comma THEN EndField(st)
           ELSE IF c \in {CR, LF} THEN EndRecord(st, c)
           ELSE AddChar(st, c, "IN_FIELD")

ReaderStates == {"START_RECORD", "AFTER_CR", "START_FIELD", "IN_FIELD", "IN_QUOTED_FIELD",
                 "QUOTE_IN_QUOTED_FIELD"}

\* the reader after t[lo..hi], started in st: the first half, then the second
\* half from the state the first half ends in
RECURSIVE ReadRange(_, _, _, _)
ReadRange(t, lo, hi, st) ==
    IF lo > hi THEN st
    ELSE IF lo = hi THEN parse_process_char(st, t[lo])
    ELSE LET first == ReadRange(t, lo, (lo + hi) \div 2, st)
         IN  IF first.state \in ReaderStates
               THEN ReadRange(t, (lo + hi) \div 2 + 1, hi, first)
               ELSE first

csv_reader(t) ==
    LET st == ReadRange(t, 1, Len(t), ReaderStart)
    IN  IF st.state \in {"START_RECORD", "AFTER_CR"} THEN st.rows
        ELSE Append(st.rows, Append(st.row, st.field))

\* ---- the file outputs/videos.csv; the empty text is the missing file
CSV_HEADERS == <<"id", "prompt", "model", "settings_json", "video_path", "source", "created_at">>

NotLoaded == [done |-> FALSE, entries |-> <<>>]

\* ensure_csv_storage: a missing file is created with the header row
ensure_csv_storage(file) ==
    IF file = <<>> THEN writerow([k \in 1..Len(CSV_HEADERS) |-> <<CSV_HEADERS[k]>>]) ELSE file

\* csv.DictReader: the first row gives the field names, empty rows are skipped
DictReader(file) ==
    LET rows == SelectSeq(csv_reader(file),
                          LAMBDA r : r # <<>>)
    IN  IF rows = <<>> THEN [fieldnames |-> <<>>, rows |-> <<>>]
        ELSE [fieldnames |-> Head(rows), rows |-> Tail(rows)]

HasColumn(fieldnames, row, name) ==
    \E k \in 1..Len(fieldnames) : fieldnames[k] = <<name>> /\ k <= Len(row)

\* row.get(name) for a column the row has
Column(fieldnames, row, name) ==
    row[CHOOSE k \in 1..Len(fieldnames) : fieldnames[k] = <<name>> /\ k <= Len(row)]

\* str.isdigit and int() on the id column
isdigit(t) == \E n \in 0..(MaxRows + 1) : t = <<ToString(n)>>
int(t) == CHOOSE n \in 0..(MaxRows + 1) : t = <<ToString(n)>>

\* get_next_id: max of the ids in the file + 1, or 1
get_next_id(file) ==
    LET dr == DictReader(ensure_csv_storage(file))
        ids == {int(Column(dr.fieldnames, dr.rows[i], "id")) :
                   i \in {k \in 1..Len(dr.rows) :
                             /\ HasColumn(dr.fieldnames, dr.rows[k], "id")
                             /\ isdigit(Column(dr.fieldnames, dr.rows[k], "id"))}}
    IN  IF ids = {} THEN 1 ELSE (CHOOSE m \in ids : \A n \in ids : n <= m) + 1

\* save_video_to_csv: the file after the row is appended
save_video_to_csv(file, p, model, path, s, source) ==
    ensure_csv_storage(file)
    \o writerow(<< <<ToString(get_next_id(file))>>, p, model, json_dumps(s), path, source,
                   <<"created_at">> >>)

\* load_videos_from_csv(limit): newest first; a row without the settings_json
\* column makes json.loads raise TypeError, and the outer except returns []
load_videos_from_csv(file, limit) ==
    LET dr == DictReader(ensure_csv_storage(file))
        n == Len(dr.rows)
        settings_of(row) ==
            LET parsed == json_loads(Column(dr.fieldnames, row, "settings_json"))
            IN  IF parsed.ok THEN parsed.val ELSE <<>>
        prompt_of(row) ==
            IF HasColumn(dr.fieldnames, row, "prompt")
              THEN Column(dr.fieldnames, row, "prompt") ELSE <<>>
    IN  IF \E i \in 1..n : ~HasColumn(dr.fieldnames, dr.rows[i], "settings_json")
          THEN <<>>
          ELSE [i \in 1..Min(n, limit) |->
                    [prompt |-> prompt_of(dr.rows[n - i + 1]),
                     settings |-> settings_of(dr.rows[n - i + 1])]]

\* prompts and settings snapshots, with the characters JSON and CSV escape
CsvPrompts == {<<"P1">>, <<"say", " ", Quote, "hi", Quote, Comma, LF, "bye">>}

PlainSettings ==
    << <<<<"mode">>, PyStr(<<"Cloud", " ", "(Faster)">>)>>,
       <<<<"fps">>, PyInt(<<"24">>)>>,
       <<<<"guidance">>, PyFloat(<<"7", ".", "5">>)>>,
       <<<<"low_vram">>, PyBool("True")>>,
       <<<<"model_id">>, PyNone>> >>

EscapedSettings ==
    << <<<<"video_style">>, PyStr(<<"a", Quote, Comma, Backslash, "n", LF, CR, "b">>)>>,
       <<<<"enable_subtitles">>, PyBool("False")>>,
       <<<<"num_frames">>, PyInt(<<"8">>)>> >>

CsvSettings == {<<>>, << <<<<"fps">>, PyInt(<<"8">>)>> >>, PlainSettings, EscapedSettings}

SaveVideoToCsv ==
    /\ UNCHANGED <<workerVars, hfVars, uiVars, storeVars, submitVars, runVars, genVars, sessVars, otpVars, loginVars>>
    /\ Len(csv_written) < MaxRows
    /\ \E p \in CsvPrompts : \E s \in CsvSettings :
         /\ csv_file' = save_video_to_csv(csv_file, p, <<"modelscope">>, <<"outputs/video.mp4">>,
                                          s, <<"local">>)
         /\ csv_written' = Append(csv_written, [prompt |-> p, settings |-> s])
    /\ csv_loaded' = NotLoaded

LoadVideosFromCsv ==
    /\ UNCHANGED <<workerVars, hfVars, uiVars, storeVars, submitVars, runVars, genVars, sessVars, otpVars, loginVars>>
    /\ csv_file' = ensure_csv_storage(csv_file)
    /\ csv_loaded' = [done |-> TRUE, entries |-> load_videos_from_csv(csv_file, LoadLimit)]
    /\ UNCHANGED csv_written

CsvNext ==
    \/ SaveVideoToCsv
    \/ LoadVideosFromCsv

(***************************************************************************)
(* ModelScopeGenerator: set_model, load_model, generate                    *)
(***************************************************************************)
DEFAULT_MODEL == "damo-vilab/text-to-video-ms-1.7b"
ModelIds == {DEFAULT_MODEL, "cerspense/zeroscope_v2_576w", "ali-vilab/text-to-video-ms-1.7b"}

\* a pipeline is written as the model id that from_pretrained built it from
NoCall == [op |-> "none", outcome |-> "none", ran |-> None, returned |-> TRUE]

\* what the environment does to one load: everything works, from_pretrained
\* raises, or a later statement raises out of load_model (a non-RuntimeError
\* in the device set-up, the offload call of the except branch, a callback)
LoadResults == {"ok", "from_pretrained raises", "raises after from_pretrained"}

\* load_model: the fields and the outcome after the call
load_model(p, mid, cur, n, res) ==
    IF p # None /\ cur = mid
      THEN [pipeline |-> p, current_model_id |-> cur, loads |-> n, outcome |-> "reused"]
      ELSE IF res = "from_pretrained raises"
        THEN [pipeline |-> p, current_model_id |-> cur, loads |-> n, outcome |-> "raised"]
        ELSE IF res = "raises after from_pretrained"
          THEN [pipeline |-> mid, current_model_id |-> cur, loads |-> n + 1, outcome |-> "raised"]
          ELSE [pipeline |-> mid, current_model_id |-> mid, loads |-> n + 1, outcome |-> "loaded"]

\* set_model(model_id)
SetModel ==
    /\ UNCHANGED <<workerVars, hfVars, uiVars, storeVars, submitVars, runVars, csvVars, sessVars, otpVars, loginVars>>
    /\ \E m \in ModelIds :
         /\ gen_call' = [op |-> "set_model", outcome |-> m, ran |-> None, returned |-> TRUE]
         /\ IF m # model_id
              THEN /\ model_id' = m
                   /\ IF pipeline # None
                        THEN pipeline' = None /\ current_model_id' = None
                        ELSE UNCHANGED <<pipeline, current_model_id>>
              ELSE UNCHANGED <<pipeline, model_id, current_model_id>>
    /\ UNCHANGED loads

\* load_model(low_vram, progress_callback)
LoadModel ==
    /\ UNCHANGED <<workerVars, hfVars, uiVars, storeVars, submitVars, runVars, csvVars, sessVars, otpVars, loginVars>>
    /\ loads < MaxLoads
    /\ \E res \in LoadResults :
         LET r == load_model(pipeline, model_id, current_model_id, loads, res)
         IN  /\ pipeline' = r.pipeline
             /\ current_model_id' = r.current_model_id
             /\ loads' = r.loads
             /\ gen_call' = [op |-> "load_model", outcome |-> r.outcome, ran |-> None,
                             returned |-> r.outcome # "raised"]
    /\ UNCHANGED model_id

\* generate(prompt, ...): load_model, then the returned pipeline is run and
\* gives the frames or raises
GenerateFrames ==
    /\ UNCHANGED <<workerVars, hfVars, uiVars, storeVars, submitVars, runVars, csvVars, sessVars, otpVars, loginVars>>
    /\ loads < MaxLoads
    /\ \E res \in LoadResults, frames \in BOOLEAN :
         LET r == load_model(pipeline, model_id, current_model_id, loads, res)
         IN  /\ pipeline' = r.pipeline
             /\ current_model_id' = r.current_model_id
             /\ loads' = r.loads
             /\ gen_call' = [op |-> "generate", outcome |-> r.outcome,
                             ran |-> IF r.outcome = "raised" THEN None ELSE r.pipeline,
                             returned |-> r.outcome # "raised" /\ frames]
    /\ UNCHANGED model_id

GenNext ==
    \/ SetModel
    \/ LoadModel
    \/ GenerateFrames

(***************************************************************************)
(* Sessions of the front end saving to the one history file (storage.py)   *)
(***************************************************************************)
Sessions == 1..NumSessions

\* a history file holding n entries of earlier generations, newest first
OldHistory(n) ==
    [i \in 1..n |-> [id |-> n + 1 - i, prompt |-> StorePrompt, model |-> "modelscope",
                     video_path |-> "old", created_at |-> 0]]

\* history = load_history(); the entry gets datetime.now()
SessionLoad(s) ==
    /\ UNCHANGED <<workerVars, hfVars, uiVars, submitVars, runVars, csvVars, genVars, otpVars, loginVars>>
    /\ s_pc[s] = "generated"
    /\ loaded_history' = [loaded_history EXCEPT ![s] = history_file]
    /\ s_time' = [s_time EXCEPT ![s] = now]
    /\ now' = now + 1
    /\ s_pc' = [s_pc EXCEPT ![s] = "loaded"]
    /\ UNCHANGED <<history_file, removals>>

\* open(HISTORY_FILE, "w") empties the file; a load_history that reads it
\* now gets JSONDecodeError and returns []
SessionOpen(s) ==
    /\ UNCHANGED <<workerVars, hfVars, uiVars, submitVars, runVars, csvVars, genVars, otpVars, loginVars>>
    /\ s_pc[s] = "loaded"
    /\ history_file' = <<>>
    /\ s_pc' = [s_pc EXCEPT ![s] = "open"]
    /\ UNCHANGED <<now, removals, loaded_history, s_time>>

\* json.dump(history, f) of the list loaded earlier with the entry in front
SessionDump(s) ==
    /\ UNCHANGED <<workerVars, hfVars, uiVars, submitVars, runVars, csvVars, genVars, otpVars, loginVars>>
    /\ s_pc[s] = "open"
    /\ history_file' = save_to_history(loaded_history[s], StorePrompt, "modelscope", "new", s_time[s])
    /\ s_pc' = [s_pc EXCEPT ![s] = "done"]
    /\ UNCHANGED <<now, removals, loaded_history, s_time>>

SessionsNext ==
    \/ \E s \in Sessions : SessionLoad(s)
    \/ \E s \in Sessions : SessionOpen(s)
    \/ \E s \in Sessions : SessionDump(s)

(***************************************************************************)
(* One-time passwords (user_auth.py): send_otp, verify_otp                 *)
(***************************************************************************)
Mobiles == {"9876543210", "9123456780"}

\* generate_otp gives any 4-digit string; two of them stand for all
Otps == {"1234", "5678"}

\* otp_store.get(mobile) is None
NoOtp == [otp |-> None, expires_at |-> 0, attempts |-> 0]

NoOtpCall == [op |-> "none", mobile |-> None, otp |-> None, success |-> FALSE,
              message |-> None, at |-> 0, wrong_before |-> 0]

\* send_otp: otp_store[mobile] = {"otp", "expires_at", "attempts": 0}; times
\* are kept in minutes (isoformat and fromisoformat of a naive datetime give
\* the same datetime back)
send_otp(store, mobile, otp, t) ==
    [store EXCEPT ![mobile] = [otp |-> otp, expires_at |-> t + OTP_EXPIRY_MINUTES,
                               attempts |-> 0]]

\* datetime.now() > expiry_time
Expired(stored, t) == t > stored.expires_at

\* (variant that lets one more guess through)
TooManyAttemptsLate(stored) == stored.attempts > 3

\* stored["attempts"] >= 3
TooManyAttempts(stored) == stored.attempts >= 3

\* (variant that leaves the record in the store after a success)
verify_otp_keeps_record(store, mobile, entered_otp, t) ==
    LET stored == store[mobile]
        removed == [store EXCEPT ![mobile] = NoOtp]
    IN  IF stored = NoOtp
          THEN [store |-> store, success |-> FALSE, compared |-> FALSE,
                message |-> "OTP not found. Please request a new OTP."]
        ELSE IF Expired(stored, t)
          THEN [store |-> removed, success |-> FALSE, compared |-> FALSE,
                message |-> "OTP expired. Please request a new OTP."]
        ELSE IF TooManyAttempts(stored)
          THEN [store |-> removed, success |-> FALSE, compared |-> FALSE,
                message |-> "Too many attempts. Please request a new OTP."]
        ELSE IF stored.otp = entered_otp
          THEN [store |-> store, success |-> TRUE, compared |-> TRUE,
                message |-> "OTP verified successfully!"]
        ELSE [store |-> [store EXCEPT ![mobile].attempts = @ + 1],
              success |-> FALSE, compared |-> TRUE,
              message |-> "Incorrect OTP."]

\* verify_otp(mobile, entered_otp) at time t: the store after the call, the
\* returned pair, and whether the entered code was compared with the stored
verify_otp(store, mobile, entered_otp, t) ==
    LET stored == store[mobile]
        removed == [store EXCEPT ![mobile] = NoOtp]
    IN  IF stored = NoOtp
          THEN [store |-> store, success |-> FALSE, compared |-> FALSE,
                message |-> "OTP not found. Please request a new OTP."]
        ELSE IF Expired(stored, t)
          THEN [store |-> removed, success |-> FALSE, compared |-> FALSE,
                message |-> "OTP expired. Please request a new OTP."]
        ELSE IF TooManyAttempts(stored)
          THEN [store |-> removed, success |-> FALSE, compared |-> FALSE,
                message |-> "Too many attempts. Please request a new OTP."]
        ELSE IF stored.otp = entered_otp
          THEN [store |-> removed, success |-> TRUE, compared |-> TRUE,
                message |-> "OTP verified successfully!"]
        ELSE [store |-> [store EXCEPT ![mobile].attempts = @ + 1],
              success |-> FALSE, compared |-> TRUE,
              message |-> "Incorrect OTP."]

\* what send_otp leaves behind for a mobile number
Issue(mobile, otp) ==
    /\ otp_store' = send_otp(otp_store, mobile, otp, clock)
    /\ issued' = [issued EXCEPT ![mobile] = otp_store'[mobile]]
    /\ wrong_compared' = [wrong_compared EXCEPT ![mobile] = 0]
    /\ successes' = [successes EXCEPT ![mobile] = 0]
    /\ otp_call' = [NoOtpCall EXCEPT !.op = "send_otp", !.mobile = mobile, !.otp = otp,
                                     !.at = clock]

\* what verify_otp leaves behind, given its result r
Verified(mobile, entered_otp, r) ==
    /\ otp_store' = r.store
    /\ otp_call' = [op |-> "verify_otp", mobile |-> mobile, otp |-> entered_otp,
                    success |-> r.success, message |-> r.message, at |-> clock,
                    wrong_before |-> wrong_compared[mobile]]
    /\ wrong_compared' = [wrong_compared EXCEPT
                            ![mobile] = IF r.compared /\ ~r.success THEN @ + 1 ELSE @]
    /\ successes' = [successes EXCEPT ![mobile] = IF r.success THEN @ + 1 ELSE @]
    /\ UNCHANGED issued

SendOtp ==
    /\ UNCHANGED <<workerVars, hfVars, uiVars, storeVars, submitVars, runVars, csvVars, genVars, sessVars, loginVars>>
    /\ \E mobile \in Mobiles, otp \in Otps : Issue(mobile, otp)
    /\ UNCHANGED clock

VerifyOtp ==
    /\ UNCHANGED <<workerVars, hfVars, uiVars, storeVars, submitVars, runVars, csvVars, genVars, sessVars, loginVars>>
    /\ \E mobile \in Mobiles, entered_otp \in Otps :
         Verified(mobile, entered_otp, verify_otp(otp_store, mobile, entered_otp, clock))
    /\ UNCHANGED clock

\* a minute passes
Tick ==
    /\ UNCHANGED <<workerVars, hfVars, uiVars, storeVars, submitVars, runVars, csvVars, genVars, sessVars, loginVars>>
    /\ clock < MaxTime
    /\ clock' = clock + 1
    /\ UNCHANGED <<otp_store, otp_call, issued, wrong_compared, successes>>

OtpNext ==
    \/ SendOtp
    \/ VerifyOtp
    \/ Tick

(***************************************************************************)
(* Login flow (user_auth.py): render_login_page, sessions, logout          *)
(***************************************************************************)
NoToken == 0
\* a validate_session call: its argument, its answer, the tokens logout had
\* destroyed when it was made
NoValidate == [token |-> NoToken, result |-> FALSE, destroyed_before |-> {}]
otpCalls == <<otp_call, issued, wrong_compared, successes>>
otpData == <<otp_store, otpCalls>>
flowVars == <<otp_step, pending_mobile, pending_otp, is_new_user, sms_sent>>
fileVars == <<users, sessions, tokens_made, session_token, current_user>>

\* what can be typed into the mobile number field: a number or something
\* shorter than 10 characters
MobileInputs == Mobiles \cup {"12345"}

\* what can be typed into the OTP field: a 4-digit code or nothing
OtpInputs == Otps \cup {""}

\* hashlib.md5(mobile.encode()).hexdigest()[:12]
generate_user_id(mobile) ==
    IF mobile = "9876543210" THEN "e388c1c5df49" ELSE "105730f23fa1"

\* create_session: sessions[token] = {user_id, created_at, expires_at}
create_session(all, token, user_id, t) ==
    all \cup {[token |-> token, user_id |-> user_id,
               expires_at |-> t + SESSION_TIMEOUT_HOURS * 60]}

\* validate_session: the sessions file after the call and the answer
validate_session(all, token, t) ==
    LET found == {s \in all : s.token = token}
    IN  IF token = NoToken \/ found = {}
          THEN [sessions |-> all, result |-> FALSE]
        ELSE IF \E s \in found : t > s.expires_at
          THEN [sessions |-> all \ found, result |-> FALSE]
        ELSE [sessions |-> all, result |-> TRUE]

\* destroy_session
destroy_session(all, token) == {s \in all : s.token # token}

\* is_logged_in()
is_logged_in == validate_session(sessions, session_token, clock).result

\* (variant that goes on whatever verify_otp returned)
VerifyPassedAlways(r) == TRUE

\* if success:
VerifyPassed(r) == r.success

\* the session is created for the user of the mobile number and kept in the
\* session state; the OTP state is reset
LogIn(mobile) ==
    /\ tokens_made' = tokens_made + 1
    /\ sessions' = create_session(sessions, tokens_made + 1, generate_user_id(mobile), clock)
    /\ session_token' = tokens_made + 1
    /\ current_user' = generate_user_id(mobile)
    /\ otp_step' = "mobile"
    /\ pending_mobile' = None
    /\ pending_otp' = None

\* Send OTP on step "mobile"
ClickSendOtp ==
    /\ UNCHANGED <<workerVars, hfVars, uiVars, storeVars, submitVars, runVars, csvVars, genVars, sessVars>>
    /\ ~is_logged_in
    /\ otp_step = "mobile"
    /\ \E mobile \in MobileInputs :
         IF mobile \notin Mobiles
           THEN /\ login_msg' = "Please enter a valid mobile number"
                /\ UNCHANGED <<otp_store, flowVars, verify_log>>
           ELSE /\ is_new_user' = (generate_user_id(mobile) \notin users)
                /\ pending_mobile' = mobile
                /\ \E otp \in Otps :
                     /\ otp_store' = send_otp(otp_store, mobile, otp, clock)
                     /\ pending_otp' = otp
                /\ sms_sent' \in BOOLEAN
                /\ otp_step' = "otp"
                /\ login_msg' = None
                /\ verify_log' = {}
    /\ UNCHANGED <<clock, otpCalls, fileVars, destroyed, validate_call>>

\* Verify on step "otp"
ClickVerify ==
    /\ UNCHANGED <<workerVars, hfVars, uiVars, storeVars, submitVars, runVars, csvVars, genVars, sessVars>>
    /\ ~is_logged_in
    /\ otp_step = "otp"
    /\ tokens_made < MaxTokens
    /\ \E entered_otp \in OtpInputs :
         IF entered_otp \notin Otps
           THEN /\ login_msg' = "Please enter 4-digit OTP"
                /\ UNCHANGED <<otp_store, flowVars, fileVars, verify_log>>
           ELSE LET r == verify_otp(otp_store, pending_mobile, entered_otp, clock)
                IN  /\ otp_store' = r.store
                    /\ verify_log' = IF r.success THEN verify_log \cup {pending_mobile}
                                                  ELSE verify_log
                    /\ IF VerifyPassed(r)
                         THEN IF is_new_user
                                THEN /\ otp_step' = "register"
                                     /\ login_msg' = None
                                     /\ UNCHANGED <<pending_mobile, pending_otp, fileVars>>
                                ELSE /\ LogIn(pending_mobile)
                                     /\ login_msg' = "Welcome back"
                                     /\ UNCHANGED users
                         ELSE /\ login_msg' = r.message
                              /\ UNCHANGED <<otp_step, pending_mobile, pending_otp, fileVars>>
                    /\ UNCHANGED <<is_new_user, sms_sent>>
    /\ UNCHANGED <<clock, otpCalls, destroyed, validate_call>>

\* Resend OTP on step "otp"
ClickResend ==
    /\ UNCHANGED <<workerVars, hfVars, uiVars, storeVars, submitVars, runVars, csvVars, genVars, sessVars>>
    /\ ~is_logged_in
    /\ otp_step = "otp"
    /\ \E otp \in Otps :
         /\ otp_store' = send_otp(otp_store, pending_mobile, otp, clock)
         /\ pending_otp' = otp
    /\ sms_sent' \in BOOLEAN
    /\ UNCHANGED <<clock, otpCalls, fileVars, otp_step, pending_mobile, is_new_user, login_msg,
                   verify_log, destroyed, validate_call>>

\* Change Number on step "otp"
ClickChangeNumber ==
    /\ UNCHANGED <<workerVars, hfVars, uiVars, storeVars, submitVars, runVars, csvVars, genVars, sessVars>>
    /\ ~is_logged_in
    /\ otp_step = "otp"
    /\ otp_step' = "mobile"
    /\ pending_mobile' = None
    /\ pending_otp' = None
    /\ UNCHANGED <<clock, otpData, fileVars, is_new_user, sms_sent, login_msg,
                   verify_log, destroyed, validate_call>>

\* Create Account on step "register", with the fields filled in or not
ClickCreateAccount ==
    /\ UNCHANGED <<workerVars, hfVars, uiVars, storeVars, submitVars, runVars, csvVars, genVars, sessVars>>
    /\ ~is_logged_in
    /\ otp_step = "register"
    /\ tokens_made < MaxTokens
    /\ \E filled \in BOOLEAN :
         IF ~filled
           THEN /\ login_msg' = "Please fill in all fields"
                /\ UNCHANGED <<flowVars, fileVars>>
           ELSE /\ users' = users \cup {generate_user_id(pending_mobile)}
                /\ LogIn(pending_mobile)
                /\ is_new_user' = FALSE
                /\ login_msg' = "Welcome"
                /\ UNCHANGED sms_sent
    /\ UNCHANGED <<clock, otpData, verify_log, destroyed, validate_call>>

\* Back on step "register"
ClickBack ==
    /\ UNCHANGED <<workerVars, hfVars, uiVars, storeVars, submitVars, runVars, csvVars, genVars, sessVars>>
    /\ ~is_logged_in
    /\ otp_step = "register"
    /\ otp_step' = "mobile"
    /\ pending_mobile' = None
    /\ UNCHANGED <<clock, otpData, fileVars, pending_otp, is_new_user, sms_sent, login_msg,
                   verify_log, destroyed, validate_call>>

\* Logout in the profile popover: destroy_session, session state cleared
ClickLogout ==
    /\ UNCHANGED <<workerVars, hfVars, uiVars, storeVars, submitVars, runVars, csvVars, genVars, sessVars>>
    /\ is_logged_in
    /\ sessions' = destroy_session(sessions, session_token)
    /\ destroyed' = destroyed \cup {session_token}
    /\ session_token' = NoToken
    /\ current_user' = None
    /\ UNCHANGED <<clock, otpData, flowVars, users, tokens_made, login_msg, verify_log,
                   validate_call>>

\* validate_session(token) for a token handed out earlier
ValidateSession ==
    /\ UNCHANGED <<workerVars, hfVars, uiVars, storeVars, submitVars, runVars, csvVars, genVars, sessVars>>
    /\ \E token \in 1..tokens_made :
         LET r == validate_session(sessions, token, clock)
         IN  /\ sessions' = r.sessions
             /\ validate_call' = [token |-> token, result |-> r.result,
                                 destroyed_before |-> destroyed]
    /\ UNCHANGED <<clock, otpData, flowVars, users, tokens_made, session_token, current_user,
                   login_msg, verify_log, destroyed>>

\* the user lets the life of an OTP pass, on the login page or after
LoginTick ==
    /\ UNCHANGED <<workerVars, hfVars, uiVars, storeVars, submitVars, runVars, csvVars, genVars, sessVars>>
    /\ clock < MaxWaits * (OTP_EXPIRY_MINUTES + 1)
    /\ clock' = clock + OTP_EXPIRY_MINUTES + 1
    /\ UNCHANGED <<otpData, loginVars>>

LoginNext ==
    \/ ClickSendOtp
    \/ ClickVerify
    \/ ClickResend
    \/ ClickChangeNumber
    \/ ClickCreateAccount
    \/ ClickBack
    \/ ClickLogout
    \/ ValidateSession
    \/ LoginTick

(***************************************************************************)
(* Specifications                                                          *)
(***************************************************************************)
\* process_jobs entered by every worker, an empty video_queue collection
WorkerInit ==
    /\ jobs = [j \in JobIds |-> AbsentDoc]
    /\ wpc = [w \in Workers |-> "start"]
    /\ wjob = [w \in Workers |-> NoJob]
    /\ werr = [w \in Workers |-> None]
    /\ hf_pc = "request"
    /\ hf_loading = 0
    /\ hf_final = "200"
    /\ hf_status = None
    /\ hf_requests = 0
    /\ retry_count = 0
    /\ hf_result = "unset"
    /\ is_generating = FALSE
    /\ generated_video = None
    /\ prompt_text = ""
    /\ regenerate_count = 0
    /\ last_prompt = None
    /\ history = {}
    /\ upc = "prompt_section"
    /\ event = NoEvent
    /\ prompt = NoPrompt
    /\ gen_btn = FALSE
    /\ regen_btn = FALSE
    /\ player = FALSE
    /\ lists = FALSE
    /\ history_file = <<>>
    /\ now = 1
    /\ removals = 0
    /\ _db = None
    /\ sub_pc = "idle"
    /\ sub_result = NoResult
    /\ sdk_failed = "no"
    /\ rest_calls = 0
    /\ rest_outcome = "none"
    /\ status_result = NoRead
    /\ settings = [mode |-> "Local (Offline)", enable_subtitles |-> FALSE]
    /\ stage4 = "not_called"
    /\ video_path = None
    /\ runs = 0
    /\ cloud_job_id = NoJob
    /\ cloud_status = NoStatus
    /\ csv_file = <<>>
    /\ csv_written = <<>>
    /\ csv_loaded = NotLoaded
    /\ hf_hint = NoHint
    /\ wait_time = 0
    /\ total_wait = 0
    /\ sub_created = {}
    /\ pipeline = None
    /\ model_id = DEFAULT_MODEL
    /\ current_model_id = None
    /\ loads = 0
    /\ gen_call = NoCall
    /\ s_pc = [s \in Sessions |-> "generated"]
    /\ loaded_history = [s \in Sessions |-> <<>>]
    /\ s_time = [s \in Sessions |-> 0]
    /\ otp_store = [m \in Mobiles |-> NoOtp]
    /\ clock = 0
    /\ otp_call = NoOtpCall
    /\ issued = [m \in Mobiles |-> NoOtp]
    /\ wrong_compared = [m \in Mobiles |-> 0]
    /\ successes = [m \in Mobiles |-> 0]
    /\ users = {}
    /\ sessions = {}
    /\ tokens_made = 0
    /\ otp_step = "mobile"
    /\ pending_mobile = None
    /\ pending_otp = None
    /\ is_new_user = FALSE
    /\ sms_sent = FALSE
    /\ session_token = NoToken
    /\ current_user = None
    /\ login_msg = None
    /\ verify_log = {}
    /\ destroyed = {}
    /\ validate_call = NoValidate

\* generate called against a server script (hf_loading, hf_final)
HFInit ==
    /\ hf_pc = "request"
    /\ hf_loading \in 0..MaxLoading
    /\ hf_final \in FinalResponses
    /\ hf_status = None
    /\ hf_requests = 0
    /\ retry_count = 0
    /\ hf_result = "unset"
    /\ jobs = [j \in JobIds |-> AbsentDoc]
    /\ wpc = [w \in Workers |-> "start"]
    /\ wjob = [w \in Workers |-> NoJob]
    /\ werr = [w \in Workers |-> None]
    /\ is_generating = FALSE
    /\ generated_video = None
    /\ prompt_text = ""
    /\ regenerate_count = 0
    /\ last_prompt = None
    /\ history = {}
    /\ upc = "prompt_section"
    /\ event = NoEvent
    /\ prompt = NoPrompt
    /\ gen_btn = FALSE
    /\ regen_btn = FALSE
    /\ player = FALSE
    /\ lists = FALSE
    /\ history_file = <<>>
    /\ now = 1
    /\ removals = 0
    /\ _db = None
    /\ sub_pc = "idle"
    /\ sub_result = NoResult
    /\ sdk_failed = "no"
    /\ rest_calls = 0
    /\ rest_outcome = "none"
    /\ status_result = NoRead
    /\ settings = [mode |-> "Local (Offline)", enable_subtitles |-> FALSE]
    /\ stage4 = "not_called"
    /\ video_path = None
    /\ runs = 0
    /\ cloud_job_id = NoJob
    /\ cloud_status = NoStatus
    /\ csv_file = <<>>
    /\ csv_written = <<>>
    /\ csv_loaded = NotLoaded
    /\ hf_hint = NoHint
    /\ wait_time = 0
    /\ total_wait = 0
    /\ sub_created = {}
    /\ pipeline = None
    /\ model_id = DEFAULT_MODEL
    /\ current_model_id = None
    /\ loads = 0
    /\ gen_call = NoCall
    /\ s_pc = [s \in Sessions |-> "generated"]
    /\ loaded_history = [s \in Sessions |-> <<>>]
    /\ s_time = [s \in Sessions |-> 0]
    /\ otp_store = [m \in Mobiles |-> NoOtp]
    /\ clock = 0
    /\ otp_call = NoOtpCall
    /\ issued = [m \in Mobiles |-> NoOtp]
    /\ wrong_compared = [m \in Mobiles |-> 0]
    /\ successes = [m \in Mobiles |-> 0]
    /\ users = {}
    /\ sessions = {}
    /\ tokens_made = 0
    /\ otp_step = "mobile"
    /\ pending_mobile = None
    /\ pending_otp = None
    /\ is_new_user = FALSE
    /\ sms_sent = FALSE
    /\ session_token = NoToken
    /\ current_user = None
    /\ login_msg = None
    /\ verify_log = {}
    /\ destroyed = {}
    /\ validate_call = NoValidate

\* init_session_state; history is what load_history() finds on disk
UIInit ==
    /\ is_generating = FALSE
    /\ generated_video = None
    /\ prompt_text = ""
    /\ regenerate_count = 0
    /\ last_prompt = None
    /\ history \in {{}, {"old"}}
    /\ upc = "prompt_section"
    /\ event = NoEvent
    /\ prompt = NoPrompt
    /\ gen_btn = FALSE
    /\ regen_btn = FALSE
    /\ player = FALSE
    /\ lists = FALSE
    /\ jobs = [j \in JobIds |-> AbsentDoc]
    /\ wpc = [w \in Workers |-> "start"]
    /\ wjob = [w \in Workers |-> NoJob]
    /\ werr = [w \in Workers |-> None]
    /\ hf_pc = "request"
    /\ hf_loading = 0
    /\ hf_final = "200"
    /\ hf_status = None
    /\ hf_requests = 0
    /\ retry_count = 0
    /\ hf_result = "unset"
    /\ history_file = <<>>
    /\ now = 1
    /\ removals = 0
    /\ _db = None
    /\ sub_pc = "idle"
    /\ sub_result = NoResult
    /\ sdk_failed = "no"
    /\ rest_calls = 0
    /\ rest_outcome = "none"
    /\ status_result = NoRead
    /\ settings = [mode |-> "Local (Offline)", enable_subtitles |-> FALSE]
    /\ stage4 = "not_called"
    /\ video_path = None
    /\ runs = 0
    /\ cloud_job_id = NoJob
    /\ cloud_status = NoStatus
    /\ csv_file = <<>>
    /\ csv_written = <<>>
    /\ csv_loaded = NotLoaded
    /\ hf_hint = NoHint
    /\ wait_time = 0
    /\ total_wait = 0
    /\ sub_created = {}
    /\ pipeline = None
    /\ model_id = DEFAULT_MODEL
    /\ current_model_id = None
    /\ loads = 0
    /\ gen_call = NoCall
    /\ s_pc = [s \in Sessions |-> "generated"]
    /\ loaded_history = [s \in Sessions |-> <<>>]
    /\ s_time = [s \in Sessions |-> 0]
    /\ otp_store = [m \in Mobiles |-> NoOtp]
    /\ clock = 0
    /\ otp_call = NoOtpCall
    /\ issued = [m \in Mobiles |-> NoOtp]
    /\ wrong_compared = [m \in Mobiles |-> 0]
    /\ successes = [m \in Mobiles |-> 0]
    /\ users = {}
    /\ sessions = {}
    /\ tokens_made = 0
    /\ otp_step = "mobile"
    /\ pending_mobile = None
    /\ pending_otp = None
    /\ is_new_user = FALSE
    /\ sms_sent = FALSE
    /\ session_token = NoToken
    /\ current_user = None
    /\ login_msg = None
    /\ verify_log = {}
    /\ destroyed = {}
    /\ validate_call = NoValidate

\* ensure_storage: an empty history file
StoreInit ==
    /\ jobs = [j \in JobIds |-> AbsentDoc]
    /\ wpc = [w \in Workers |-> "start"]
    /\ wjob = [w \in Workers |-> NoJob]
    /\ werr = [w \in Workers |-> None]
    /\ hf_pc = "request"
    /\ hf_loading = 0
    /\ hf_final = "200"
    /\ hf_status = None
    /\ hf_requests = 0
    /\ retry_count = 0
    /\ hf_result = "unset"
    /\ is_generating = FALSE
    /\ generated_video = None
    /\ prompt_text = ""
    /\ regenerate_count = 0
    /\ last_prompt = None
    /\ history = {}
    /\ upc = "prompt_section"
    /\ event = NoEvent
    /\ prompt = NoPrompt
    /\ gen_btn = FALSE
    /\ regen_btn = FALSE
    /\ player = FALSE
    /\ lists = FALSE
    /\ history_file = <<>>
    /\ now = 1
    /\ removals = 0
    /\ _db = None
    /\ sub_pc = "idle"
    /\ sub_result = NoResult
    /\ sdk_failed = "no"
    /\ rest_calls = 0
    /\ rest_outcome = "none"
    /\ status_result = NoRead
    /\ settings = [mode |-> "Local (Offline)", enable_subtitles |-> FALSE]
    /\ stage4 = "not_called"
    /\ video_path = None
    /\ runs = 0
    /\ cloud_job_id = NoJob
    /\ cloud_status = NoStatus
    /\ csv_file = <<>>
    /\ csv_written = <<>>
    /\ csv_loaded = NotLoaded
    /\ hf_hint = NoHint
    /\ wait_time = 0
    /\ total_wait = 0
    /\ sub_created = {}
    /\ pipeline = None
    /\ model_id = DEFAULT_MODEL
    /\ current_model_id = None
    /\ loads = 0
    /\ gen_call = NoCall
    /\ s_pc = [s \in Sessions |-> "generated"]
    /\ loaded_history = [s \in Sessions |-> <<>>]
    /\ s_time = [s \in Sessions |-> 0]
    /\ otp_store = [m \in Mobiles |-> NoOtp]
    /\ clock = 0
    /\ otp_call = NoOtpCall
    /\ issued = [m \in Mobiles |-> NoOtp]
    /\ wrong_compared = [m \in Mobiles |-> 0]
    /\ successes = [m \in Mobiles |-> 0]
    /\ users = {}
    /\ sessions = {}
    /\ tokens_made = 0
    /\ otp_step = "mobile"
    /\ pending_mobile = None
    /\ pending_otp = None
    /\ is_new_user = FALSE
    /\ sms_sent = FALSE
    /\ session_token = NoToken
    /\ current_user = None
    /\ login_msg = None
    /\ verify_log = {}
    /\ destroyed = {}
    /\ validate_call = NoValidate

\* an empty queue, no client yet
SubmitInit ==
    /\ jobs = [j \in JobIds |-> AbsentDoc]
    /\ wpc = [w \in Workers |-> "start"]
    /\ wjob = [w \in Workers |-> NoJob]
    /\ werr = [w \in Workers |-> None]
    /\ hf_pc = "request"
    /\ hf_loading = 0
    /\ hf_final = "200"
    /\ hf_status = None
    /\ hf_requests = 0
    /\ retry_count = 0
    /\ hf_result = "unset"
    /\ is_generating = FALSE
    /\ generated_video = None
    /\ prompt_text = ""
    /\ regenerate_count = 0
    /\ last_prompt = None
    /\ history = {}
    /\ upc = "prompt_section"
    /\ event = NoEvent
    /\ prompt = NoPrompt
    /\ gen_btn = FALSE
    /\ regen_btn = FALSE
    /\ player = FALSE
    /\ lists = FALSE
    /\ history_file = <<>>
    /\ now = 1
    /\ removals = 0
    /\ _db = None
    /\ sub_pc = "idle"
    /\ sub_result = NoResult
    /\ sdk_failed = "no"
    /\ rest_calls = 0
    /\ rest_outcome = "none"
    /\ status_result = NoRead
    /\ settings = [mode |-> "Local (Offline)", enable_subtitles |-> FALSE]
    /\ stage4 = "not_called"
    /\ video_path = None
    /\ runs = 0
    /\ cloud_job_id = NoJob
    /\ cloud_status = NoStatus
    /\ csv_file = <<>>
    /\ csv_written = <<>>
    /\ csv_loaded = NotLoaded
    /\ hf_hint = NoHint
    /\ wait_time = 0
    /\ total_wait = 0
    /\ sub_created = {}
    /\ pipeline = None
    /\ model_id = DEFAULT_MODEL
    /\ current_model_id = None
    /\ loads = 0
    /\ gen_call = NoCall
    /\ s_pc = [s \in Sessions |-> "generated"]
    /\ loaded_history = [s \in Sessions |-> <<>>]
    /\ s_time = [s \in Sessions |-> 0]
    /\ otp_store = [m \in Mobiles |-> NoOtp]
    /\ clock = 0
    /\ otp_call = NoOtpCall
    /\ issued = [m \in Mobiles |-> NoOtp]
    /\ wrong_compared = [m \in Mobiles |-> 0]
    /\ successes = [m \in Mobiles |-> 0]
    /\ users = {}
    /\ sessions = {}
    /\ tokens_made = 0
    /\ otp_step = "mobile"
    /\ pending_mobile = None
    /\ pending_otp = None
    /\ is_new_user = FALSE
    /\ sms_sent = FALSE
    /\ session_token = NoToken
    /\ current_user = None
    /\ login_msg = None
    /\ verify_log = {}
    /\ destroyed = {}
    /\ validate_call = NoValidate

\* a fresh session with its sidebar settings; the latest cloud job, if any,
\* is in one of the states a worker leaves it in
RunInit ==
    /\ is_generating = FALSE
    /\ generated_video = None
    /\ prompt_text = ""
    /\ regenerate_count = 0
    /\ last_prompt = None
    /\ history = {}
    /\ upc = "prompt_section"
    /\ event = NoEvent
    /\ prompt = NoPrompt
    /\ gen_btn = FALSE
    /\ regen_btn = FALSE
    /\ player = FALSE
    /\ lists = FALSE
    /\ jobs \in {[j \in JobIds |-> IF j = 1 THEN d ELSE AbsentDoc] : d \in WorkerDocs \cup {AbsentDoc}}
    /\ wpc = [w \in Workers |-> "start"]
    /\ wjob = [w \in Workers |-> NoJob]
    /\ werr = [w \in Workers |-> None]
    /\ hf_pc = "request"
    /\ hf_loading = 0
    /\ hf_final = "200"
    /\ hf_status = None
    /\ hf_requests = 0
    /\ retry_count = 0
    /\ hf_result = "unset"
    /\ history_file = <<>>
    /\ now = 1
    /\ removals = 0
    /\ _db = None
    /\ sub_pc = "idle"
    /\ sub_result = NoResult
    /\ sdk_failed = "no"
    /\ rest_calls = 0
    /\ rest_outcome = "none"
    /\ status_result = NoRead
    /\ settings \in [mode : Modes, enable_subtitles : BOOLEAN]
    /\ stage4 = "not_called"
    /\ video_path = None
    /\ runs = 0
    /\ cloud_job_id = (IF jobs[1].status = "absent" THEN NoJob ELSE 1)
    /\ cloud_status = NoStatus
    /\ csv_file = <<>>
    /\ csv_written = <<>>
    /\ csv_loaded = NotLoaded
    /\ hf_hint = NoHint
    /\ wait_time = 0
    /\ total_wait = 0
    /\ sub_created = {}
    /\ pipeline = None
    /\ model_id = DEFAULT_MODEL
    /\ current_model_id = None
    /\ loads = 0
    /\ gen_call = NoCall
    /\ s_pc = [s \in Sessions |-> "generated"]
    /\ loaded_history = [s \in Sessions |-> <<>>]
    /\ s_time = [s \in Sessions |-> 0]
    /\ otp_store = [m \in Mobiles |-> NoOtp]
    /\ clock = 0
    /\ otp_call = NoOtpCall
    /\ issued = [m \in Mobiles |-> NoOtp]
    /\ wrong_compared = [m \in Mobiles |-> 0]
    /\ successes = [m \in Mobiles |-> 0]
    /\ users = {}
    /\ sessions = {}
    /\ tokens_made = 0
    /\ otp_step = "mobile"
    /\ pending_mobile = None
    /\ pending_otp = None
    /\ is_new_user = FALSE
    /\ sms_sent = FALSE
    /\ session_token = NoToken
    /\ current_user = None
    /\ login_msg = None
    /\ verify_log = {}
    /\ destroyed = {}
    /\ validate_call = NoValidate

\* no CSV file yet
CsvInit ==
    /\ jobs = [j \in JobIds |-> AbsentDoc]
    /\ wpc = [w \in Workers |-> "start"]
    /\ wjob = [w \in Workers |-> NoJob]
    /\ werr = [w \in Workers |-> None]
    /\ hf_pc = "request"
    /\ hf_loading = 0
    /\ hf_final = "200"
    /\ hf_status = None
    /\ hf_requests = 0
    /\ retry_count = 0
    /\ hf_result = "unset"
    /\ is_generating = FALSE
    /\ generated_video = None
    /\ prompt_text = ""
    /\ regenerate_count = 0
    /\ last_prompt = None
    /\ history = {}
    /\ upc = "prompt_section"
    /\ event = NoEvent
    /\ prompt = NoPrompt
    /\ gen_btn = FALSE
    /\ regen_btn = FALSE
    /\ player = FALSE
    /\ lists = FALSE
    /\ history_file = <<>>
    /\ now = 1
    /\ removals = 0
    /\ _db = None
    /\ sub_pc = "idle"
    /\ sub_result = NoResult
    /\ sdk_failed = "no"
    /\ rest_calls = 0
    /\ rest_outcome = "none"
    /\ status_result = NoRead
    /\ settings = [mode |-> "Local (Offline)", enable_subtitles |-> FALSE]
    /\ stage4 = "not_called"
    /\ video_path = None
    /\ runs = 0
    /\ cloud_job_id = NoJob
    /\ cloud_status = NoStatus
    /\ csv_file = <<>>
    /\ csv_written = <<>>
    /\ csv_loaded = NotLoaded
    /\ hf_hint = NoHint
    /\ wait_time = 0
    /\ total_wait = 0
    /\ sub_created = {}
    /\ pipeline = None
    /\ model_id = DEFAULT_MODEL
    /\ current_model_id = None
    /\ loads = 0
    /\ gen_call = NoCall
    /\ s_pc = [s \in Sessions |-> "generated"]
    /\ loaded_history = [s \in Sessions |-> <<>>]
    /\ s_time = [s \in Sessions |-> 0]
    /\ otp_store = [m \in Mobiles |-> NoOtp]
    /\ clock = 0
    /\ otp_call = NoOtpCall
    /\ issued = [m \in Mobiles |-> NoOtp]
    /\ wrong_compared = [m \in Mobiles |-> 0]
    /\ successes = [m \in Mobiles |-> 0]
    /\ users = {}
    /\ sessions = {}
    /\ tokens_made = 0
    /\ otp_step = "mobile"
    /\ pending_mobile = None
    /\ pending_otp = None
    /\ is_new_user = FALSE
    /\ sms_sent = FALSE
    /\ session_token = NoToken
    /\ current_user = None
    /\ login_msg = None
    /\ verify_log = {}
    /\ destroyed = {}
    /\ validate_call = NoValidate

SpecWorker == WorkerInit /\ [][WorkerNext]_vars

SpecHF == HFInit /\ [][HFNext]_vars

SpecUI == UIInit /\ [][UINext]_vars

SpecStore == StoreInit /\ [][StoreNext]_vars

SpecSubmit == SubmitInit /\ [][SubmitNext]_vars

SpecRun == RunInit /\ [][RunNext]_vars

SpecCsv == CsvInit /\ [][CsvNext]_vars

\* a new ModelScopeGenerator(model_id)
GenInit ==
    /\ jobs = [j \in JobIds |-> AbsentDoc]
    /\ wpc = [w \in Workers |-> "start"]
    /\ wjob = [w \in Workers |-> NoJob]
    /\ werr = [w \in Workers |-> None]
    /\ hf_pc = "request"
    /\ hf_loading = 0
    /\ hf_final = "200"
    /\ hf_status = None
    /\ hf_requests = 0
    /\ retry_count = 0
    /\ hf_result = "unset"
    /\ is_generating = FALSE
    /\ generated_video = None
    /\ prompt_text = ""
    /\ regenerate_count = 0
    /\ last_prompt = None
    /\ history = {}
    /\ upc = "prompt_section"
    /\ event = NoEvent
    /\ prompt = NoPrompt
    /\ gen_btn = FALSE
    /\ regen_btn = FALSE
    /\ player = FALSE
    /\ lists = FALSE
    /\ history_file = <<>>
    /\ now = 1
    /\ removals = 0
    /\ _db = None
    /\ sub_pc = "idle"
    /\ sub_result = NoResult
    /\ sdk_failed = "no"
    /\ rest_calls = 0
    /\ rest_outcome = "none"
    /\ status_result = NoRead
    /\ settings = [mode |-> "Local (Offline)", enable_subtitles |-> FALSE]
    /\ stage4 = "not_called"
    /\ video_path = None
    /\ runs = 0
    /\ cloud_job_id = NoJob
    /\ cloud_status = NoStatus
    /\ csv_file = <<>>
    /\ csv_written = <<>>
    /\ csv_loaded = NotLoaded
    /\ hf_hint = NoHint
    /\ wait_time = 0
    /\ total_wait = 0
    /\ sub_created = {}
    /\ pipeline = None
    /\ model_id \in ModelIds
    /\ current_model_id = None
    /\ loads = 0
    /\ gen_call = NoCall
    /\ s_pc = [s \in Sessions |-> "generated"]
    /\ loaded_history = [s \in Sessions |-> <<>>]
    /\ s_time = [s \in Sessions |-> 0]
    /\ otp_store = [m \in Mobiles |-> NoOtp]
    /\ clock = 0
    /\ otp_call = NoOtpCall
    /\ issued = [m \in Mobiles |-> NoOtp]
    /\ wrong_compared = [m \in Mobiles |-> 0]
    /\ successes = [m \in Mobiles |-> 0]
    /\ users = {}
    /\ sessions = {}
    /\ tokens_made = 0
    /\ otp_step = "mobile"
    /\ pending_mobile = None
    /\ pending_otp = None
    /\ is_new_user = FALSE
    /\ sms_sent = FALSE
    /\ session_token = NoToken
    /\ current_user = None
    /\ login_msg = None
    /\ verify_log = {}
    /\ destroyed = {}
    /\ validate_call = NoValidate

SpecGen == GenInit /\ [][GenNext]_vars

\* every session has a finished generation to save; the file holds earlier entries
SessionsInit ==
    /\ jobs = [j \in JobIds |-> AbsentDoc]
    /\ wpc = [w \in Workers |-> "start"]
    /\ wjob = [w \in Workers |-> NoJob]
    /\ werr = [w \in Workers |-> None]
    /\ hf_pc = "request"
    /\ hf_loading = 0
    /\ hf_final = "200"
    /\ hf_status = None
    /\ hf_requests = 0
    /\ retry_count = 0
    /\ hf_result = "unset"
    /\ is_generating = FALSE
    /\ generated_video = None
    /\ prompt_text = ""
    /\ regenerate_count = 0
    /\ last_prompt = None
    /\ history = {}
    /\ upc = "prompt_section"
    /\ event = NoEvent
    /\ prompt = NoPrompt
    /\ gen_btn = FALSE
    /\ regen_btn = FALSE
    /\ player = FALSE
    /\ lists = FALSE
    /\ history_file \in {OldHistory(n) : n \in 0..MaxOld}
    /\ now = 1
    /\ removals = 0
    /\ _db = None
    /\ sub_pc = "idle"
    /\ sub_result = NoResult
    /\ sdk_failed = "no"
    /\ rest_calls = 0
    /\ rest_outcome = "none"
    /\ status_result = NoRead
    /\ settings = [mode |-> "Local (Offline)", enable_subtitles |-> FALSE]
    /\ stage4 = "not_called"
    /\ video_path = None
    /\ runs = 0
    /\ cloud_job_id = NoJob
    /\ cloud_status = NoStatus
    /\ csv_file = <<>>
    /\ csv_written = <<>>
    /\ csv_loaded = NotLoaded
    /\ hf_hint = NoHint
    /\ wait_time = 0
    /\ total_wait = 0
    /\ sub_created = {}
    /\ pipeline = None
    /\ model_id = DEFAULT_MODEL
    /\ current_model_id = None
    /\ loads = 0
    /\ gen_call = NoCall
    /\ s_pc = [s \in Sessions |-> "generated"]
    /\ loaded_history = [s \in Sessions |-> <<>>]
    /\ s_time = [s \in Sessions |-> 0]
    /\ otp_store = [m \in Mobiles |-> NoOtp]
    /\ clock = 0
    /\ otp_call = NoOtpCall
    /\ issued = [m \in Mobiles |-> NoOtp]
    /\ wrong_compared = [m \in Mobiles |-> 0]
    /\ successes = [m \in Mobiles |-> 0]
    /\ users = {}
    /\ sessions = {}
    /\ tokens_made = 0
    /\ otp_step = "mobile"
    /\ pending_mobile = None
    /\ pending_otp = None
    /\ is_new_user = FALSE
    /\ sms_sent = FALSE
    /\ session_token = NoToken
    /\ current_user = None
    /\ login_msg = None
    /\ verify_log = {}
    /\ destroyed = {}
    /\ validate_call = NoValidate

SpecSessions == SessionsInit /\ [][SessionsNext]_vars

\* an empty outputs/otp_store.json
OtpInit ==
    /\ jobs = [j \in JobIds |-> AbsentDoc]
    /\ wpc = [w \in Workers |-> "start"]
    /\ wjob = [w \in Workers |-> NoJob]
    /\ werr = [w \in Workers |-> None]
    /\ hf_pc = "request"
    /\ hf_loading = 0
    /\ hf_final = "200"
    /\ hf_status = None
    /\ hf_requests = 0
    /\ retry_count = 0
    /\ hf_result = "unset"
    /\ is_generating = FALSE
    /\ generated_video = None
    /\ prompt_text = ""
    /\ regenerate_count = 0
    /\ last_prompt = None
    /\ history = {}
    /\ upc = "prompt_section"
    /\ event = NoEvent
    /\ prompt = NoPrompt
    /\ gen_btn = FALSE
    /\ regen_btn = FALSE
    /\ player = FALSE
    /\ lists = FALSE
    /\ history_file = <<>>
    /\ now = 1
    /\ removals = 0
    /\ _db = None
    /\ sub_pc = "idle"
    /\ sub_result = NoResult
    /\ sdk_failed = "no"
    /\ rest_calls = 0
    /\ rest_outcome = "none"
    /\ status_result = NoRead
    /\ settings = [mode |-> "Local (Offline)", enable_subtitles |-> FALSE]
    /\ stage4 = "not_called"
    /\ video_path = None
    /\ runs = 0
    /\ cloud_job_id = NoJob
    /\ cloud_status = NoStatus
    /\ csv_file = <<>>
    /\ csv_written = <<>>
    /\ csv_loaded = NotLoaded
    /\ hf_hint = NoHint
    /\ wait_time = 0
    /\ total_wait = 0
    /\ sub_created = {}
    /\ pipeline = None
    /\ model_id = DEFAULT_MODEL
    /\ current_model_id = None
    /\ loads = 0
    /\ gen_call = NoCall
    /\ s_pc = [s \in Sessions |-> "generated"]
    /\ loaded_history = [s \in Sessions |-> <<>>]
    /\ s_time = [s \in Sessions |-> 0]
    /\ otp_store = [m \in Mobiles |-> NoOtp]
    /\ clock = 0
    /\ otp_call = NoOtpCall
    /\ issued = [m \in Mobiles |-> NoOtp]
    /\ wrong_compared = [m \in Mobiles |-> 0]
    /\ successes = [m \in Mobiles |-> 0]
    /\ users = {}
    /\ sessions = {}
    /\ tokens_made = 0
    /\ otp_step = "mobile"
    /\ pending_mobile = None
    /\ pending_otp = None
    /\ is_new_user = FALSE
    /\ sms_sent = FALSE
    /\ session_token = NoToken
    /\ current_user = None
    /\ login_msg = None
    /\ verify_log = {}
    /\ destroyed = {}
    /\ validate_call = NoValidate

SpecOtp == OtpInit /\ [][OtpNext]_vars

\* a browser session on the login page; one of the numbers may be registered
LoginInit ==
    /\ jobs = [j \in JobIds |-> AbsentDoc]
    /\ wpc = [w \in Workers |-> "start"]
    /\ wjob = [w \in Workers |-> NoJob]
    /\ werr = [w \in Workers |-> None]
    /\ hf_pc = "request"
    /\ hf_loading = 0
    /\ hf_final = "200"
    /\ hf_status = None
    /\ hf_requests = 0
    /\ retry_count = 0
    /\ hf_result = "unset"
    /\ is_generating = FALSE
    /\ generated_video = None
    /\ prompt_text = ""
    /\ regenerate_count = 0
    /\ last_prompt = None
    /\ history = {}
    /\ upc = "prompt_section"
    /\ event = NoEvent
    /\ prompt = NoPrompt
    /\ gen_btn = FALSE
    /\ regen_btn = FALSE
    /\ player = FALSE
    /\ lists = FALSE
    /\ history_file = <<>>
    /\ now = 1
    /\ removals = 0
    /\ _db = None
    /\ sub_pc = "idle"
    /\ sub_result = NoResult
    /\ sdk_failed = "no"
    /\ rest_calls = 0
    /\ rest_outcome = "none"
    /\ status_result = NoRead
    /\ settings = [mode |-> "Local (Offline)", enable_subtitles |-> FALSE]
    /\ stage4 = "not_called"
    /\ video_path = None
    /\ runs = 0
    /\ cloud_job_id = NoJob
    /\ cloud_status = NoStatus
    /\ csv_file = <<>>
    /\ csv_written = <<>>
    /\ csv_loaded = NotLoaded
    /\ hf_hint = NoHint
    /\ wait_time = 0
    /\ total_wait = 0
    /\ sub_created = {}
    /\ pipeline = None
    /\ model_id = DEFAULT_MODEL
    /\ current_model_id = None
    /\ loads = 0
    /\ gen_call = NoCall
    /\ s_pc = [s \in Sessions |-> "generated"]
    /\ loaded_history = [s \in Sessions |-> <<>>]
    /\ s_time = [s \in Sessions |-> 0]
    /\ otp_store = [m \in Mobiles |-> NoOtp]
    /\ clock = 0
    /\ otp_call = NoOtpCall
    /\ issued = [m \in Mobiles |-> NoOtp]
    /\ wrong_compared = [m \in Mobiles |-> 0]
    /\ successes = [m \in Mobiles |-> 0]
    /\ users \in {{}, {generate_user_id("9876543210")}}
    /\ sessions = {}
    /\ tokens_made = 0
    /\ otp_step = "mobile"
    /\ pending_mobile = None
    /\ pending_otp = None
    /\ is_new_user = FALSE
    /\ sms_sent = FALSE
    /\ session_token = NoToken
    /\ current_user = None
    /\ login_msg = None
    /\ verify_log = {}
    /\ destroyed = {}
    /\ validate_call = NoValidate

SpecLogin == LoginInit /\ [][LoginNext]_vars

(***************************************************************************)
(* Properties                                                              *)
(***************************************************************************)
Terminal == {"completed", "error"}

\* C1: a job's status becomes completed or error only from processing
\* (never straight from pending), whatever the store writes, generation
\* and save do.
C1_EnteredFromProcessing ==
    [][\A j \in JobIds :
         (jobs'[j].status \in Terminal /\ jobs'[j].status # jobs[j].status)
            => jobs[j].status = "processing"]_vars

\* C2: completed and error are terminal: once a job has one of them, no step
\* of any worker changes its status.
C2_TerminalStaysTerminal ==
    [][\A j \in JobIds :
         jobs[j].status \in Terminal => jobs'[j].status = jobs[j].status]_vars

\* C3: a worker is in generation (or save, or the completed write) only for a
\* document its own query returned and its own write marked processing; the
\* store gives it no exclusive hold, so two workers can be there for the same
\* job (the witness).
C3_GeneratesOnlyMarkedJob ==
    \A w \in Workers :
        wpc[w] \in {"generate", "save", "complete"}
            => /\ wjob[w] \in JobIds
               /\ jobs[wjob[w]].status \notin {"absent", "pending"}
               /\ jobs[wjob[w]].model = "damo"

C3_BothGenerateSameJob ==
    /\ wpc[1] = "generate"
    /\ wpc[2] = "generate"
    /\ wjob[1] = wjob[2]
    /\ jobs[wjob[1]].status = "processing"

\* C4: once a worker is in its poll loop no exception stops it: no step takes
\* it out of the loop, a failure in the job body leads to the error handler,
\* the handler (whether its own write succeeds or raises) and a failed query
\* lead to a sleep, and the only step after a sleep is the next poll.
InLoop(w) == wpc[w] \notin {"start", "stopped"}

C4_LoopSurvives ==
    [][\A w \in Workers :
         (InLoop(w) /\ wpc'[w] # wpc[w])
            => /\ wpc'[w] # "stopped"
               /\ wpc[w] \in {"sleep5", "sleep10"} => wpc'[w] = "poll"
               /\ wpc[w] = "handler" => wpc'[w] \in {"sleep5", "sleep10"}
               /\ wpc[w] = "poll" => wpc'[w] \in {"mark", "sleep5", "sleep10"}
               /\ wpc[w] = "mark" => wpc'[w] \in {"generate", "handler"}
               /\ wpc[w] = "generate" => wpc'[w] \in {"save", "handler"}
               /\ wpc[w] = "save" => wpc'[w] \in {"complete", "handler"}
               /\ wpc[w] = "complete" => wpc'[w] \in {"sleep5", "handler"}]_vars

C4_SleepsAfterFailedErrorWrite ==
    \E w \in Workers :
        /\ wpc[w] = "sleep10"
        /\ wjob[w] # NoJob
        /\ jobs[wjob[w]].status = "processing"

\* C5: when no script run is executing, is_generating is false.
C5_FlagClearedWhenIdle == upc = "idle" => ~is_generating

\* C6: k "503" answers then a "200", k below the retry cap: exactly k + 1
\* requests and the success result.
C6_LoadingThenSuccess ==
    (hf_pc = "done" /\ hf_final = "200" /\ hf_loading < max_retries)
        => (hf_requests = hf_loading + 1 /\ hf_result = "output_path")

C6_FiveLoadingSixRequests ==
    /\ hf_pc = "done"
    /\ hf_loading = 5
    /\ hf_final = "200"
    /\ hf_requests = 6
    /\ hf_result = "output_path"

\* C7 as stated: "503" on 30 consecutive requests: exactly 30 requests in
\* total and no result.
C7_ThirtyRequests ==
    (hf_pc = "done" /\ hf_loading >= max_retries)
        => (hf_requests = max_retries /\ hf_result = None)

\* C7 amended: "503" on 30 consecutive requests: exactly 31 requests (the
\* initial one and 30 retries); no result unless the 31st answer is "200".
C7_ThirtyOneRequests ==
    (hf_pc = "done" /\ hf_loading >= max_retries)
        => /\ hf_requests = max_retries + 1
           /\ (hf_result = None) <=> ~(hf_loading = max_retries /\ hf_final = "200")
           /\ hf_result \in {None, "output_path"}

C7_AlwaysLoadingGivesUp ==
    /\ hf_pc = "done"
    /\ hf_loading > max_retries
    /\ retry_count = max_retries
    /\ hf_requests = max_retries + 1
    /\ hf_result = None

\* C8: regenerate_count starts at 0, stays within 0..max_regenerate, grows
\* only in the handling of a Regenerate click, and then by exactly 1.
RegenerateHandled ==
    upc = "player" /\ event.kind = "regenerate" /\ generated_video # None

C8_CounterBounded ==
    /\ regenerate_count = 0
    /\ [](regenerate_count >= 0 /\ regenerate_count <= max_regenerate)
    /\ [][/\ regenerate_count' > regenerate_count => RegenerateHandled
          /\ RegenerateHandled => regenerate_count' = regenerate_count + 1]_vars

C8_CapReached ==
    /\ upc = "idle"
    /\ regenerate_count = max_regenerate
    /\ player
    /\ ~regen_btn

\* C9 as stated: for a submitted prompt (no run executing, flag clear),
\* Regenerate can be triggered exactly when regenerate_count < 2.
C9_AvailableIffBelowCap ==
    (upc = "idle" /\ ~is_generating /\ last_prompt # None)
        => (regen_btn <=> regenerate_count < max_regenerate)

\* C9 amended: Regenerate can be triggered exactly when a generated video is
\* displayed and regenerate_count < 2.
C9_AvailableIffShownAndBelowCap ==
    upc = "idle"
        => (regen_btn <=> (player /\ generated_video # None
                             /\ regenerate_count < max_regenerate))

C9_ShownAtCapDisabled ==
    /\ upc = "idle"
    /\ last_prompt # None
    /\ player
    /\ generated_video = "new"
    /\ regenerate_count = max_regenerate
    /\ ~regen_btn

\* C10: a pipeline run that begins for a prompt other than the previously
\* submitted one begins with regenerate_count = 0.
C10_NewPromptStartsAtZero ==
    [][(upc = "prompt_section" /\ upc' = "translate" /\ last_prompt' # last_prompt)
          => regenerate_count' = 0]_vars

\* C13: one poll returns at most one job, and only jobs whose status is
\* pending at the time of the query; the job a worker takes from its poll
\* was pending when it polled.
C13_QueryReturnsOnePending ==
    /\ [](\A S \in QueryResults :
             /\ Cardinality(S) <= 1
             /\ \A j \in S : jobs[j].status = "pending")
    /\ [][\A w \in Workers :
             (wpc[w] = "poll" /\ wpc'[w] = "mark")
                => /\ wjob'[w] \in JobIds
                   /\ jobs[wjob'[w]].status = "pending"]_vars

C13_OneOfTwoPendingTaken ==
    \E w \in Workers :
        /\ wpc[w] = "mark"
        /\ Cardinality(PendingDocs) = 2
        /\ wjob[w] \in PendingDocs

\* C18: a job in processing always has a worker still working on it (at the
\* processing write, generation, save, the completed write or the error
\* handler).  A processing job that no worker holds stays in processing for
\* ever, because a poll only returns pending jobs (C13).
Working == {"mark", "generate", "save", "complete", "handler"}

C18_ProcessingJobHasWorker ==
    \A j \in JobIds :
        jobs[j].status = "processing"
            => \E w \in Workers : wjob[w] = j /\ wpc[w] \in Working

\* C19: when the handler of a generation or save exception is left, the job
\* is in error with the exception message, and has no video_url.
C19_FailureRecordedAsError ==
    [][\A w \in Workers :
         (wpc[w] = "handler" /\ werr[w] \in {"generate", "save"} /\ wpc'[w] # "handler")
            => /\ jobs'[wjob[w]].status = "error"
               /\ jobs'[wjob[w]].error = werr[w]
               /\ jobs'[wjob[w]].video_url = None]_vars

\* C20: video_url is populated only in completed jobs and error only in
\* error jobs.
C20_ResultFieldsMatchStatus ==
    \A j \in JobIds :
        /\ jobs[j].video_url # None => jobs[j].status = "completed"
        /\ jobs[j].error # None => jobs[j].status = "error"

\* C11: the history holds at most 50 entries, newest first; a save puts the
\* new entry in front of the entries already there and, past 50, drops the
\* oldest one.
C11_CappedNewestFirst ==
    /\ [](/\ Len(history_file) <= 50
          /\ \A i \in 1..(Len(history_file) - 1) :
                history_file[i].created_at >= history_file[i + 1].created_at)
    /\ [][now' # now
            => /\ Len(history_file') = Min(Len(history_file) + 1, 50)
               /\ history_file'[1].created_at = now
               /\ Tail(history_file') = SubSeq(history_file, 1, Len(history_file') - 1)]_vars

C11_OldestDropped ==
    /\ Len(history_file) = 50
    /\ history_file[1].created_at = 51
    /\ history_file[50].created_at = 2

\* C12: a status read issued right after submit_job_to_cloud returned a job
\* id, for that id and served by either read path, returns a record whose
\* status is pending, whichever path created the job.
C12_ReadAfterCreateIsPending ==
    [][(/\ sub_pc = "done"
        /\ sub_result.success
        /\ status_result' # status_result
        /\ status_result'.job_id = sub_result.job_id
        /\ status_result'.path \in {"sdk", "rest"})
           => status_result'.record.status = "pending"]_vars

C12_RestCreatedRestRead ==
    /\ sub_pc = "done"
    /\ rest_outcome = "200"
    /\ status_result.path = "rest"
    /\ status_result.job_id = sub_result.job_id
    /\ status_result.record = [status |-> "pending", video_url |-> None, error |-> None]

\* what the call returns for each outcome of the REST attempt
RestResultReturned ==
    /\ rest_outcome = "200"
          => /\ sub_result.success
             /\ sub_result.job_id \in JobIds
             /\ jobs[sub_result.job_id].status = "pending"
    /\ rest_outcome \in {"error", "exception"}
          => /\ ~sub_result.success
             /\ sub_result.message \in {"REST Error", "REST Connection Failed"}

\* C14 (as stated): after any failure of the SDK path, the client that cannot
\* be initialised included, exactly one REST insertion was attempted and its
\* outcome is what the call returns.
C14_AnyPrimaryFailureOneRest ==
    (sub_pc = "done" /\ sdk_failed \in {"init", "add"})
        => /\ rest_calls = 1
           /\ RestResultReturned

\* C14 (amended): when the insert call raises, exactly one REST insertion is
\* attempted and its outcome is what the call returns (success with a job id
\* of a pending document, or a failure value); when the client cannot be
\* initialised the call returns the "not configured" failure and attempts no
\* REST insertion.
C14_InsertFailureOneRest ==
    /\ rest_calls <= 1
    /\ (sub_pc = "done" /\ sdk_failed = "add")
          => /\ rest_calls = 1
             /\ rest_outcome # "none"
             /\ RestResultReturned
    /\ (sub_pc = "done" /\ sdk_failed = "init")
          => /\ rest_calls = 0
             /\ ~sub_result.success
             /\ sub_result.message = "Firebase not configured"

C14_FallbackAccepted ==
    /\ sub_pc = "done"
    /\ sdk_failed = "add"
    /\ rest_calls = 1
    /\ rest_outcome = "200"
    /\ sub_result.success
    /\ sub_result.message = "Job queued via HTTP"

\* C16: every successful generation adds exactly one History entry: a
\* generate_video call that returns a video puts one entry with the run's
\* prompt and the adapter of the chosen mode in front of the history, a call
\* that returns no video adds none, and a cloud job seen completed for the
\* first time by the status poll adds one entry too.
C16_OneEntryPerSuccess ==
    /\ [][upc = "generate" /\ upc' = "persist"
            => IF video_path' # None
                 THEN /\ Len(history_file') = Len(history_file) + 1
                      /\ Tail(history_file') = history_file
                      /\ history_file'[1].prompt = prompt
                      /\ history_file'[1].model =
                            (IF settings.mode = "Local (Offline)" THEN "modelscope"
                             ELSE "huggingface_cloud")
                 ELSE history_file' = history_file]_vars
    /\ [][cloud_status'.status = "completed" /\ cloud_status.status # "completed"
            => Len(history_file') = Len(history_file) + 1]_vars

\* C17: no optional stage ends the request: the stages before stage 4 always
\* lead on to it, and when the generator of stage 4 produced its output the
\* call returns a video and the request ends with it.
C17_OptionalFailureNeverAborts ==
    /\ [][(upc \in {"translate", "analyze", "search"}) => (upc' # "idle")]_vars
    /\ [](upc = "persist" /\ stage4 = "ok" => video_path # None)
    /\ [][(upc = "persist" /\ stage4 = "ok") => (generated_video' = "new")]_vars

\* the mapping a sequence of items stands for
AsMapping(items) == {items[k] : k \in 1..Len(items)}

\* C15: what load_videos_from_csv returns is, newest first, one record for
\* each record saved (up to the limit), and the settings of each are, as a
\* mapping, the settings snapshot that was saved.
C15_SettingsRoundTrip ==
    csv_loaded.done
        => LET n == Len(csv_written)
               entries == csv_loaded.entries
           IN  /\ Len(entries) = Min(n, LoadLimit)
               /\ \A k \in 1..Len(entries) :
                     AsMapping(entries[k].settings) = AsMapping(csv_written[n - k + 1].settings)

C15_EscapedRowsReadBack ==
    /\ csv_loaded.done
    /\ Len(csv_loaded.entries) = 2
    /\ csv_written[1].settings = EscapedSettings
    /\ csv_written[1].prompt # <<"P1">>
    /\ csv_loaded.entries[2].settings = EscapedSettings
    /\ csv_loaded.entries[1].settings = PlainSettings

\* the step in which render_video_player handles a click on Regenerate
RegenerateClicked == regenerate_count' = regenerate_count + 1

\* the step in which render_prompt_section starts the pipeline as a regeneration
RegenerationStarts ==
    /\ upc = "prompt_section"
    /\ is_generating
    /\ generated_video = None

\* C21: a Regenerate click is handled only when a prompt was submitted for the
\* video shown, and the run that follows starts the whole pipeline with that
\* saved prompt, untranslated and unenhanced, never with an empty one.
C21_RegenerateUsesOriginalPrompt ==
    /\ [][RegenerateClicked => (last_prompt # None /\ last_prompt # "")]_vars
    /\ [][RegenerationStarts
            => /\ upc' = "translate"
               /\ prompt' = [text |-> last_prompt, translated |-> FALSE, enhanced |-> FALSE]
               /\ last_prompt' = last_prompt]_vars

\* C24: no two stored entries share an id, and a save gives the new entry an
\* id greater than the id of every entry that was in the store.
C24_IdsMonotonic ==
    /\ [](\A i, j \in 1..Len(history_file) :
             i # j => history_file[i].id # history_file[j].id)
    /\ [][now' # now
            => \A i \in 1..Len(history_file) : history_file'[1].id > history_file[i].id]_vars

\* C22: the waits of one generate call add up to at most 300 seconds.
C22_TotalWaitWithinCeiling == total_wait <= 300

\* C23: the wait before a retry is min(hint, 30) seconds when the 503 body
\* carries estimated_time and 10 seconds when it carries none; no wait is
\* longer than 30 seconds and there are never more than 30 retries.
C23_WaitFromHint ==
    /\ [][retry_count' = retry_count + 1
            => /\ wait_time' = (IF hf_hint'.has_estimated_time
                                  THEN Min(hf_hint'.estimated_time, 30) ELSE 10)
               /\ wait_time' <= 30
               /\ total_wait' = total_wait + wait_time']_vars
    /\ [](retry_count <= 30 /\ wait_time <= 30)

C23_LongHintClamped ==
    /\ hf_hint.has_estimated_time
    /\ hf_hint.estimated_time = 60
    /\ wait_time = 30
    /\ retry_count = 30

\* C26: one call to submit_job_to_cloud creates at most one job record, also
\* when the SDK insert raises after the store accepted the write and the REST
\* fallback inserts.
C26_OneRecordPerSubmission == Cardinality(sub_created) <= 1

\* C25: a held pipeline is reused without reloading exactly when it was
\* loaded for the selected model id, and generate never runs a pipeline
\* loaded for another model id than the selected one (self.pipeline being the
\* only reference, at most one pipeline is held after a call).
C25_ReusedExactlyWhenLoadedForSelected ==
    /\ [][gen_call'.op \in {"load_model", "generate"}
            => ((loads' = loads /\ gen_call'.outcome = "reused")
                   <=> (pipeline # None /\ pipeline = model_id))]_vars
    /\ [](gen_call.op = "generate" /\ gen_call.ran # None => gen_call.ran = model_id)

\* C30: when the sessions that finished generations concurrently have all
\* saved, the entry of each of them is in the history file.
C30_NoEntryLost ==
    (\A s \in Sessions : s_pc[s] = "done")
        => \A s \in Sessions :
             \E i \in 1..Len(history_file) : history_file[i].created_at = s_time[s]

\* C27: for one OTP issued by send_otp at most 3 incorrect guesses are
\* compared; after three wrong guesses every further verify_otp for the mobile
\* number fails, the correct code included, until send_otp issues a new OTP;
\* the stored attempts count never exceeds 3.
C27_ThreeWrongGuessesAtMost ==
    /\ \A m \in Mobiles : wrong_compared[m] <= 3
    /\ \A m \in Mobiles : otp_store[m].attempts <= 3
    /\ (otp_call.op = "verify_otp" /\ otp_call.wrong_before >= 3) => ~otp_call.success

C27_CorrectCodeAfterThreeWrong ==
    /\ otp_call.op = "verify_otp"
    /\ otp_call.wrong_before = 3
    /\ otp_call.otp = issued[otp_call.mobile].otp
    /\ otp_call.at <= issued[otp_call.mobile].expires_at
    /\ ~otp_call.success
    /\ otp_call.message = "Too many attempts. Please request a new OTP."

\* C28: verify_otp returns success at most once per OTP issued by send_otp (a
\* second verify with the same code finds no record), and never after the
\* OTP's expiry time.
C28_SingleUseTimeLimited ==
    /\ \A m \in Mobiles : successes[m] <= 1
    /\ (otp_call.op = "verify_otp" /\ otp_call.success)
          => /\ otp_call.at <= issued[otp_call.mobile].expires_at
             /\ otp_call.otp = issued[otp_call.mobile].otp

C28_SecondVerifyFails ==
    /\ otp_call.op = "verify_otp"
    /\ successes[otp_call.mobile] = 1
    /\ otp_call.otp = issued[otp_call.mobile].otp
    /\ otp_call.at <= issued[otp_call.mobile].expires_at
    /\ ~otp_call.success
    /\ otp_call.message = "OTP not found. Please request a new OTP."

\* C29: a session token is created and stored only after verify_otp returned
\* success for the pending mobile number in the flow that creates it, and
\* validate_session on a token destroyed by logout returns false.
C29_SessionOnlyAfterVerification ==
    /\ [][tokens_made' # tokens_made
            => /\ pending_mobile \in verify_log'
               /\ \E s \in sessions' :
                    /\ s.token = session_token'
                    /\ s.token = tokens_made'
                    /\ s.user_id = generate_user_id(pending_mobile)]_vars
    /\ [](validate_call.token \in validate_call.destroyed_before => ~validate_call.result)

C29_LoggedInThenLoggedOut ==
    /\ validate_call.token \in validate_call.destroyed_before
    /\ validate_call.token = tokens_made
    /\ ~validate_call.result
    /\ generate_user_id("9123456780") \in users
    /\ "9123456780" \in verify_log

====
